---- MODULE Spec2Model ----
(***************************************************************************)
(* A model of the Hildebrand Glow energy-monitor integration:              *)
(*   - the API client (api/client.py): token handling, async_authenticate, *)
(*     _ensure_authenticated, _api_request and async_get_data;             *)
(*   - the update coordinator (coordinator/base.py): _async_update_data    *)
(*     and _transform_data with its extraction helpers.                    *)
(*                                                                         *)
(* Conventions.                                                            *)
(*   - Python's None is the empty sequence <<>>, a present value x is      *)
(*     <<x>> (an option), so that TLC never compares values of two types.  *)
(*   - In a JSON object a missing key is None too.  Where the code reads a *)
(*     key with a default (d.get(k, default)) a key that is there with the *)
(*     value null behaves differently from a missing one; such a field may *)
(*     hold Null.                                                          *)
(*   - A JSON body has a shape: "object", "empty_object" ({}), "list" (a   *)
(*     non-empty list where only the shape matters) or "empty_list" ([]).  *)
(*   - Time is in whole seconds.                                           *)
(*   - A classifier is the sequence of its dot-separated segments:         *)
(*     "electricity.consumption.cost" is <<"electricity","consumption",    *)
(*     "cost">>; the missing classifier (default "") is <<>>.  A segment   *)
(*     is a string; prefix and substring tests look into it.               *)
(*   - A dict is a function; the key f"{classifier}_{window}" is the pair  *)
(*     <<classifier, window>>.                                             *)
(*   - Every HTTP call is one step; the server's answer is drawn from a    *)
(*     small set of responses.                                             *)
(***************************************************************************)
EXTENDS Integers, Sequences, FiniteSets, TLC

VARIABLES
    now,            \* the wall clock, datetime.now(tz=UTC), in seconds
    ticks,          \* how many times the clock has advanced (bounded)
    token,          \* client._token          (option of a string)
    token_expiry,   \* client._token_expiry   (option of a time)
    obtained_at,    \* ghost: when the stored token was issued (option)
    auth_log,       \* ghost: the last async_authenticate call and its outcome
    req,            \* the activations of _api_request, one for each caller
                    \* (position and history)
    server,         \* the remote API: the account's meters and its data epoch
    faults_left,    \* how many more requests the server may answer with
                    \* faults (-1: no limit)
    cycles_left,    \* how many fetch cycles the host may still start
    gd,             \* the activation of async_get_data
    co,             \* the activation of _async_update_data and its outcome
    heap,           \* the snapshot dicts: object id -> {"meters": {...}}
    data,           \* coordinator.data: option of an object id
    last_update_success, \* coordinator.last_update_success
    published,      \* ghost: what the last successful cycle returned
    entities,       \* the sensors the platform setup has added (option of a
                    \* list)
    svc,            \* the blueprint integration (ha_integration_domain): its
                    \* config entries' coordinators and the last call of one
                    \* of its service actions
    demo            \* the entities of one config entry of the blueprint
                    \* integration, and the coordinator they share

clientvars == <<token, token_expiry, obtained_at, auth_log, req>>
cyclevars == <<server, cycles_left, gd, co, heap, data, last_update_success,
               published, entities, svc, demo>>
vars == <<now, ticks, clientvars, faults_left, cyclevars>>

----------------------------------------------------------------------------
(* Bounds of the model *)

\* How many times the clock may advance in one behaviour.
MaxTicks == 3

\* How many calls of _api_request meet faulty responses (error statuses,
\* timeouts, connection failures, undecodable or unexpectedly shaped bodies,
\* refused credentials) in one behaviour of the fetch cycles.  One call may
\* meet several: on its first send, its re-authentication and its retry.
MaxFaults == 1

\* The same for the behaviours of a single call of async_get_data.
MaxFaultsGetData == 2

\* How many fetch cycles the host starts in one behaviour.
MaxCycles == 2

----------------------------------------------------------------------------
(* Options *)

None == <<>>
Some(x) == <<x>>
IsNone(o) == o = <<>>
Get(o) == o[1]

\* The JSON null of a key that is there, in a field read with a default.
Null == <<"json", "null">>

----------------------------------------------------------------------------
(* The state of the blueprint integration before it has any config entry *)

\*   entries : the coordinators of the config entries
\*   calls   : how many service calls were made
\*   runs    : the activations of the handler of reload_data, in the order
\*             of their calls
\*   us      : the microseconds of the wall clock, below a second
\*   last    : ghost, the call that returned last (id: its number among
\*             the calls), what its caller got and the responses that
\*             async_handle_reload_data returned to the handler
NoCall == [id |-> 0, service |-> "", returned |-> None, handled |-> <<>>]

IdleSvc == [entries |-> <<>>, calls |-> 0, runs |-> <<>>, us |-> 0,
            last |-> NoCall]

----------------------------------------------------------------------------
(* The entities of the blueprint integration after their setup *)

\* coordinator.data of the blueprint integration: the JSON object of the API
\* (its userId, an option) and the keys the entities add to it.
DemoData(userId) ==
    [userId |-> userId, demo_fan_speed |-> None, demo_filter_reset |-> FALSE]

\* The fan (fan/air_purifier_fan.py 50-51) and the select
\* (select/fan_speed.py 47) after __init__, over a coordinator whose first
\* refresh has succeeded.
\*   pending : a refresh an entity has requested has not completed (the
\*             entities' calls are not serialised among the platforms: a
\*             call may come while another awaits its refresh)
\*   last    : ghost, the last call of an entity and the outcome of the
\*             latest refresh after it ("" while there was none)
IdleDemo ==
    [data |-> DemoData(Some(1)), last_update_success |-> TRUE,
     fan |-> [is_on |-> TRUE, percentage |-> 66],
     select |-> [current_option |-> "auto"],
     pending |-> FALSE,
     last |-> [op |-> "", arg |-> None, refresh |-> ""]]

----------------------------------------------------------------------------
(* The remote API: the data it serves (const.py, client.py docstrings) *)

\* const.py: the resource classifiers, as dot-separated segments
CLASSIFIER_ELECTRICITY_CONSUMPTION == <<"electricity", "consumption">>
CLASSIFIER_ELECTRICITY_COST == <<"electricity", "consumption", "cost">>
CLASSIFIER_GAS_CONSUMPTION == <<"gas", "consumption">>
CLASSIFIER_GAS_COST == <<"gas", "consumption", "cost">>
\* A classifier of no energy the integration knows: "cost" is in it, inside
\* a longer segment.
ClassifierOther == <<"water", "consumption", "costs">>

\* str.startswith and the `in` of two strings
HasPrefix(str, word) ==
    Len(str) >= Len(word) /\ SubSeq(str, 1, Len(word)) = word

HasSubstring(str, word) ==
    \E k \in 1..(Len(str) - Len(word) + 1) :
       SubSeq(str, k, k + Len(word) - 1) = word

\* Some segment starts with the word.
AltStartsWithAnywhere(c, word) == \E i \in 1..Len(c) : HasPrefix(c[i], word)

\* classifier.startswith(word), for a word without a dot: the first segment
\* starts with it.
StartsWith(c, word) == Len(c) >= 1 /\ HasPrefix(c[1], word)

\* word in classifier, for a word without a dot: it is inside a segment.
Contains(c, word) == \E i \in 1..Len(c) : HasSubstring(c[i], word)

\* Numbers are decimals with five places, held as integers: 1.23456 is 123456.
Unit == 10 ^ 5

\* A virtual entity as GET /virtualentity lists it.
MeterHome == [veId |-> Some("m1"), name |-> Some("Home"), postalCode |-> Some("AB1 2CD")]
MeterFlat == [veId |-> Some("m2"), name |-> None, postalCode |-> None]
MeterNoId == [veId |-> None, name |-> Some("Ghost"), postalCode |-> None]

\* A resource as GET /virtualentity/{id}/resources lists it.
Res(id, c) == [resourceId |-> id, classifier |-> c]

\* The accounts the server may hold: meters with their resources.
Worlds ==
    { <<>>,
      << [ve |-> MeterHome,
          resources |-> << Res(Some("r1"), Some(CLASSIFIER_ELECTRICITY_CONSUMPTION)),
                           Res(Some("r2"), Some(CLASSIFIER_ELECTRICITY_COST)) >>] >>,
      << [ve |-> MeterHome,
          resources |-> << Res(Some("r1"), Some(CLASSIFIER_ELECTRICITY_CONSUMPTION)) >>],
         [ve |-> MeterFlat,
          resources |-> << Res(Some("r3"), Some(CLASSIFIER_GAS_CONSUMPTION)),
                           Res(Some("r4"), Some(CLASSIFIER_GAS_COST)) >>] >>,
      << [ve |-> MeterNoId, resources |-> <<>>],
         [ve |-> MeterFlat, resources |-> <<>>] >>,
      << [ve |-> MeterFlat,
          resources |-> << Res(None, Some(CLASSIFIER_GAS_CONSUMPTION)),
                           Res(Some("r5"), Some(ClassifierOther)),
                           Res(Some("r6"), None) >>] >> }

\* One entry of a readings series: a JSON list (of numbers and nulls), or a
\* JSON value that is no list: a number, a string of `len` characters or an
\* object of `len` keys.
Pair(ts, v) == [kind |-> "list", len |-> 2, elems |-> <<Some(ts), v>>]
ShortItem(ts) == [kind |-> "list", len |-> 1, elems |-> <<Some(ts)>>]
NotAList == [kind |-> "number", len |-> 0, elems |-> <<>>]
StringItem(n) == [kind |-> "string", len |-> n, elems |-> <<>>]
ObjectItem(n) == [kind |-> "object", len |-> n, elems |-> <<>>]

\* The readings the server holds for a classifier and period in an epoch:
\* kWh for consumption, pence for cost.
ServerSeries(c, period, epoch) ==
    LET shift == epoch * 100000
    IN CASE Contains(c, "cost") /\ period = "P1D" ->
              << Pair(1, Some(25000000 + shift)) >>
         [] Contains(c, "cost") /\ period = "P1W" ->
              IF StartsWith(c, "gas") THEN <<>>
              ELSE << Pair(1, Some(25000000)), Pair(2, Some(31234567 + shift)) >>
         [] Contains(c, "cost") ->
              << Pair(1, None), Pair(2, Some(456700000)) >>
         [] period = "PT1M" ->
              << Pair(1, Some(42000 + shift)) >>
         [] period = "P1D" ->
              << Pair(1, Some(123456 + shift)) >>
         [] period = "P1W" ->
              << Pair(1, Some(250000)), Pair(2, None), Pair(3, Some(1000049 + shift)) >>
         [] OTHER ->
              << ShortItem(1), Pair(2, Some(4200000 + shift)), Pair(3, Some(77)) >>

\* The tariff history the server holds, most recent first: rate in pence per
\* kWh, standing charge in pence per day.
ServerTariff(c, epoch) ==
    << [currentRates |-> Some([rate |-> Some(1523456 + epoch),
                               standingCharge |-> Some(456700000)])],
       [currentRates |-> Some([rate |-> Some(1400000),
                               standingCharge |-> Some(400000000)])] >>

\* The request _api_request sends: the endpoint, the id in its path and the
\* period parameter.
Endpoint(kind, id, period) == [kind |-> kind, id |-> id, period |-> period]
NoEndpoint == Endpoint("", "", "")

\* The classifier of the resource with this id ("" when it has none).
AllResources(srv) ==
    UNION { { srv.meters[i].resources[j] : j \in 1..Len(srv.meters[i].resources) } :
            i \in 1..Len(srv.meters) }

ServerClassifier(srv, rid) ==
    LET hits == { r \in AllResources(srv) : r.resourceId = Some(rid) }
    IN IF hits = {} THEN <<>>
       ELSE LET r == CHOOSE x \in hits : TRUE
            IN IF r.classifier = None THEN <<>> ELSE Get(r.classifier)

\* The JSON body the server returns for a request when it works as specified.
GoodBody(srv, ep) ==
    CASE ep.kind = "virtualentity" ->
           [shape |-> "list",
            items |-> [i \in 1..Len(srv.meters) |-> srv.meters[i].ve]]
      [] ep.kind = "resources" ->
           LET idx == { i \in 1..Len(srv.meters) : srv.meters[i].ve.veId = Some(ep.id) }
           IN [shape |-> "object",
               resources |-> IF idx = {} THEN None
                             ELSE Some(srv.meters[CHOOSE i \in idx : TRUE].resources)]
      [] ep.kind = "readings" ->
           [shape |-> "object",
            data |-> Some(ServerSeries(ServerClassifier(srv, ep.id), ep.period, srv.epoch))]
      [] ep.kind = "tariff" ->
           [shape |-> "object",
            data |-> Some(ServerTariff(ServerClassifier(srv, ep.id), srv.epoch))]
      [] OTHER -> [shape |-> "object"]

\* Readings and tariff bodies of a shape the coordinator does not expect: a
\* list, an empty list, an object whose "data" is null, an object whose
\* "data" holds entries that are no lists (5, "a", "ab", {}, an object of
\* two keys, alone and after a pair), a tariff whose "currentRates" is null.
MalformedReadings ==
    {[shape |-> "list", data |-> None],
     [shape |-> "empty_list", data |-> None],
     [shape |-> "object", data |-> Null]}
    \cup { [shape |-> "object", data |-> Some(sr)] :
             sr \in { <<NotAList>>, <<StringItem(1)>>, <<StringItem(2)>>,
                      <<ObjectItem(0)>>, <<ObjectItem(2)>>,
                      <<Pair(1, Some(200000)), ObjectItem(0)>>,
                      <<Pair(1, Some(200000)), ObjectItem(2), NotAList>>,
                      <<NotAList, ObjectItem(2)>> } }

MalformedTariffs ==
    {[shape |-> "list", data |-> None],
     [shape |-> "empty_list", data |-> None],
     [shape |-> "object", data |-> Some(<< [currentRates |-> Null] >>)]}

\* Well-formed JSON of a shape the client does not expect, as the server of
\* the fetch cycles answers it: for each request the bodies that take
\* async_get_data or the transform of what it stored down different paths.
BadBodies(ep) ==
    CASE ep.kind = "virtualentity" ->
           {[shape |-> "object", items |-> <<>>],
            [shape |-> "empty_object", items |-> <<>>]}
      [] ep.kind = "resources" ->
           {[shape |-> "list", resources |-> None],
            [shape |-> "object", resources |-> Null]}
      [] ep.kind = "readings" /\ ep.period = "PT1M" ->
           {[shape |-> "list", data |-> None],
            [shape |-> "object", data |-> Null]}
      [] ep.kind = "readings" ->
           {[shape |-> "list", data |-> None],
            [shape |-> "object", data |-> Some(<<NotAList>>)]}
      [] ep.kind = "tariff" ->
           {[shape |-> "list", data |-> None]}
      [] OTHER -> {}

\* The server may answer with a fault while the budget lasts; the budget is
\* charged once for a call of _api_request, at its first faulty response.
CanFault(r) == r.faulted \/ faults_left # 0
Charged(r, isfault) ==
    IF isfault /\ ~r.faulted /\ faults_left > 0
    THEN faults_left - 1 ELSE faults_left
Mark(r, isfault) == [r EXCEPT !.faulted = @ \/ isfault]

----------------------------------------------------------------------------
(* The API client: api/client.py *)

\* TOKEN_LIFETIME_SECONDS = 55 * 60
TOKEN_LIFETIME_SECONDS == 55 * 60

\* timedelta(minutes=1), in seconds
EXPIRY_MARGIN_SECONDS == 1 * 60

\* The tokens the server hands out.
Tokens == {"tokA", "tokB"}

\* Python truthiness of self._token (str | None): None and "" are falsy.
TokenTruthy(tok) == tok # None /\ Get(tok) # ""

\* The statuses that mean "rejected": response.status in (401, 403)
RejectedStatuses == {401, 403}

\* What the server may answer to POST /auth.
\*   kind "status"      : a non-2xx status (401, 403 or another, here 500)
\*   kind "json"        : 200 with a JSON object {valid, token}
\*   kind "json_list"   : 200 with well-formed JSON that is not an object
\*   kind "timeout"     : asyncio.timeout(10) fired
\*   kind "conn_error"  : aiohttp.ClientError / socket.gaierror
AuthResponses(srv) ==
    [kind : {"status"}, status : {401, 403, 500}, valid : {None}, token : {None}]
    \cup [kind : {"json"}, status : {200},
          valid : {None, Some(TRUE), Some(FALSE)},
          token : {None, Some("")} \cup {Some(t) : t \in srv.tokens}]
    \cup [kind : {"json_list", "timeout", "conn_error"}, status : {0},
          valid : {None}, token : {None}]

\* The except clauses of async_authenticate (client.py 132-139): the client
\* error that leaves async_authenticate when `exc` is raised in its body.
AltAuthenticateExcept(exc) ==
    exc

authenticate_except(exc) ==
    CASE exc = "AuthenticationError" -> "AuthenticationError"
      [] exc = "TimeoutError"        -> "CommunicationError"
      [] exc \in {"ClientError", "ClientResponseError", "gaierror"}
                                     -> "CommunicationError"
      [] OTHER                       -> exc

\* async_authenticate (client.py 79-139) on the server's answer `resp` at time
\* t, with the stored token and expiry (tok, exp).  The result gives what was
\* raised ("none" when it returned), the returned token and the stored fields
\* afterwards.
async_authenticate(resp, t, tok, exp) ==
    LET raise(exc, tok2) ==
            [raised |-> authenticate_except(exc),
             \* `raise ... from exception` (lines 134-139)
             cause |-> IF authenticate_except(exc) = exc THEN "" ELSE exc,
             ret |-> None, token |-> tok2, token_expiry |-> exp]
    IN  CASE resp.kind = "timeout"    -> raise("TimeoutError", tok)
          [] resp.kind = "conn_error" -> raise("ClientError", tok)
          [] resp.kind = "status" /\ resp.status \in RejectedStatuses
                                      -> raise("AuthenticationError", tok)
          \* response.raise_for_status()
          [] resp.kind = "status" /\ resp.status \notin RejectedStatuses
                                      -> raise("ClientResponseError", tok)
          \* data.get("valid") on a JSON value that is not an object
          [] resp.kind = "json_list"  -> raise("AttributeError", tok)
          [] resp.kind = "json" /\ resp.valid # Some(TRUE)
                                      -> raise("AuthenticationError", tok)
          \* self._token = data.get("token") comes before the check of it
          [] resp.kind = "json" /\ resp.valid = Some(TRUE)
             /\ ~TokenTruthy(resp.token)
                                      -> raise("AuthenticationError", resp.token)
          [] OTHER ->
                [raised |-> "none", cause |-> "", ret |-> resp.token,
                 token |-> resp.token,
                 token_expiry |-> Some(t + TOKEN_LIFETIME_SECONDS)]

\* _is_token_expired (client.py 141-146)
AltIsTokenExpiredStrict(tok, exp, t) ==
    IF ~TokenTruthy(tok) \/ IsNone(exp)
    THEN TRUE
    ELSE t > Get(exp) - EXPIRY_MARGIN_SECONDS

\* An _is_token_expired without the test of self._token.
AltIsTokenExpiredIgnoresToken(tok, exp, t) ==
    IF IsNone(exp)
    THEN TRUE
    ELSE t >= Get(exp) - EXPIRY_MARGIN_SECONDS

_is_token_expired(tok, exp, t) ==
    IF ~TokenTruthy(tok) \/ IsNone(exp)
    THEN TRUE
    ELSE t >= Get(exp) - EXPIRY_MARGIN_SECONDS

\* An _ensure_authenticated that authenticates only when no token is held.
AltEnsureAuthenticatedOnlyWhenMissing(tok, exp, t) == ~TokenTruthy(tok)

\* _ensure_authenticated (client.py 148-152): whether it calls
\* async_authenticate.
_ensure_authenticated(tok, exp, t) == _is_token_expired(tok, exp, t)

\* _get_auth_headers (client.py 154-160): the "token" header, self._token or ""
_get_auth_headers(tok) == IF TokenTruthy(tok) THEN Get(tok) ELSE ""

\* What the server may answer to a data request.
\*   kind "status"     : a non-2xx status
\*   kind "json"       : 200 and a JSON body (see Bodies)
\*   kind "bad_json"   : 200 and a body response.json() cannot decode
\*   kind "timeout"    : asyncio.timeout(30) fired
\*   kind "conn_error" : aiohttp.ClientError / socket.gaierror
DataFailures ==
    [kind : {"status"}, status : {401, 403, 500}, body : {None}]
    \cup [kind : {"timeout", "conn_error"}, status : {0}, body : {None}]
    \cup [kind : {"bad_json"}, status : {200}, body : {None}]

\* The except clauses of _api_request (client.py 226-236): the client error
\* that leaves _api_request when `exc` is raised inside its try block.
api_request_except(exc) ==
    CASE exc = "AuthenticationError" -> "AuthenticationError"
      [] exc = "TimeoutError"        -> "CommunicationError"
      [] exc \in {"ClientError", "ClientResponseError", "gaierror"}
                                     -> "CommunicationError"
      [] OTHER                       -> "ApiClientError"

\* What a data response makes the body of _api_request do (client.py 192-224):
\* "rejected" (401/403), the exception it raises, or "ok".
send_outcome(resp) ==
    CASE resp.kind = "timeout"    -> "TimeoutError"
      [] resp.kind = "conn_error" -> "ClientError"
      [] resp.kind = "status" /\ resp.status \in RejectedStatuses -> "rejected"
      \* response.raise_for_status(): aiohttp.ClientResponseError
      [] resp.kind = "status"     -> "ClientResponseError"
      \* await response.json() on an undecodable body
      [] resp.kind = "bad_json"   -> "JSONDecodeError"
      [] OTHER                    -> "ok"

\* What _api_request does when the retry is rejected too (client.py 215-217).
AltOnRetryRejectedRetriesAgain == "reauth"

on_retry_rejected == "raise"

\* The timeouts of the two blocks that await the server: asyncio.timeout(10)
\* around POST /auth (client.py 94), asyncio.timeout(30) around the body of
\* _api_request (client.py 191), in seconds.
AUTH_TIMEOUT_SECONDS == 10

REQUEST_TIMEOUT_SECONDS == 30

\* The tasks that call the client.  The client has no lock: a call runs
\* until its next await, and at every await any other call may run.
Callers == {"a", "b"}

\* The caller that is the coordinator's async_get_data.
Fetcher == "a"

\* In the runs of the client alone one caller calls async_catchup("r1")
\* and the other async_get_current("r2"), each again and again.
CatchupCaller == "a"

\* The activation record of _api_request, one for each caller.
\*   pc           : "idle", "ensure" (called, not yet run), "auth" (POST
\*                  /auth of _ensure_authenticated awaited), "send" (first
\*                  data request awaited), "reauth" (POST /auth after a
\*                  rejection awaited), "retry" (second data request
\*                  awaited), "direct" (async_authenticate called by the
\*                  caller itself, POST /auth awaited) or "done"
\*   sends        : data requests sent
\*   ensure_auths : async_authenticate calls made by _ensure_authenticated
\*   reauths      : async_authenticate calls made after a 401/403
\*   first_status, retry_status : the status of the two sends (options)
\*   sent         : the token header of each send, read when it is issued
\*   net_fail     : the step at which a timeout or connection failure happened
\*   result       : "pending", "ok" or the exception that left _api_request
\*   cause        : the exception the raised one was made from ("" if none)
\*   body         : the JSON returned (option)
\*   deadline     : when the timeout of the pending await fires (option)
\*   try_deadline : when asyncio.timeout(30) of _api_request fires (option)
\*   faulted      : ghost, the call has met a faulty response
IdleReq ==
    [pc |-> "idle", endpoint |-> NoEndpoint, sends |-> 0, ensure_auths |-> 0,
     reauths |-> 0, first_status |-> None, retry_status |-> None,
     sent |-> <<>>, net_fail |-> "", result |-> "pending", cause |-> "",
     body |-> None, faulted |-> FALSE, deadline |-> None,
     try_deadline |-> None]

IdleReqs == [c \in Callers |-> IdleReq]

StartReq(ep) == [IdleReq EXCEPT !.pc = "ensure", !.endpoint = ep]

Put(c, r) == [req EXCEPT ![c] = r]

\* A call has returned or raised and its caller has not yet gone on.  The
\* return and the caller's next statement are one synchronous run of the
\* caller's task, so no other task and no time comes in between.
Returning == \E c \in Callers : req[c].pc = "done"

IsNetworkFailure(resp) == resp.kind \in {"timeout", "conn_error"}

\* The answers to POST /auth that are faults of the server or the account.
IsAuthFault(resp) ==
    ~(resp.kind = "json" /\ resp.valid = Some(TRUE) /\ TokenTruthy(resp.token))

\* The ghost record of one async_authenticate call: the answer, the time
\* and the stored fields when the answer came, and the outcome.
AuthLog(resp, t, tok, exp, r) ==
    [called |-> TRUE, resp |-> resp, at |-> t, pre_token |-> tok,
     pre_expiry |-> exp, raised |-> r.raised, ret |-> r.ret,
     token |-> r.token, token_expiry |-> r.token_expiry]

NoAuthLog ==
    [called |-> FALSE, resp |-> [kind |-> "timeout", status |-> 0,
                                 valid |-> None, token |-> None],
     at |-> 0, pre_token |-> None, pre_expiry |-> None, raised |-> "none",
     ret |-> None, token |-> None, token_expiry |-> None]

\* The ghost issue time after an async_authenticate call.
ObtainedAfter(r, t, old) == IF r.raised = "none" THEN Some(t) ELSE old

\* _api_request leaves with the client error made from `exc`.
ReqRaise(r, exc) ==
    [r EXCEPT !.pc = "done", !.result = api_request_except(exc),
              !.cause = IF api_request_except(exc) = exc THEN "" ELSE exc,
              !.deadline = None, !.try_deadline = None]

\* _api_request returns the decoded body.
ReqReturn(r, body) ==
    [r EXCEPT !.pc = "done", !.result = "ok", !.body = body,
              !.deadline = None, !.try_deadline = None]

\* session.request(..., headers=self._get_auth_headers(), ...) (client.py
\* 192-198 and 208-214): the request goes out at time t with the token
\* stored at that moment; the first one enters asyncio.timeout(30).
IssueRequest(r, tok, t) ==
    LET td == IF r.sends = 0 THEN Some(t + REQUEST_TIMEOUT_SECONDS)
              ELSE r.try_deadline
    IN [r EXCEPT !.pc = IF r.sends = 0 THEN "send" ELSE "retry",
                 !.sends = @ + 1,
                 !.sent = Append(@, _get_auth_headers(tok)),
                 !.try_deadline = td,
                 !.deadline = td]

\* await self.async_authenticate() after a rejection (client.py 206): POST
\* /auth goes out at time t under asyncio.timeout(10), inside the 30 s block.
IssueReauth(r, t) ==
    [r EXCEPT !.pc = "reauth", !.reauths = @ + 1,
              !.deadline = IF t + AUTH_TIMEOUT_SECONDS < Get(r.try_deadline)
                           THEN Some(t + AUTH_TIMEOUT_SECONDS)
                           ELSE r.try_deadline]

\* _api_request, line 187: await self._ensure_authenticated().  The task
\* runs from the call to its first await: the expiry check (client.py 141-
\* 152) and then either POST /auth or, with a token that is not expired, the
\* data request itself.
EnsureAuthenticated(c) ==
    /\ ~Returning
    /\ req[c].pc = "ensure"
    /\ req' = Put(c, IF _ensure_authenticated(token, token_expiry, now)
                     THEN [req[c] EXCEPT
                             !.pc = "auth",
                             !.ensure_auths = @ + 1,
                             !.deadline = Some(now + AUTH_TIMEOUT_SECONDS)]
                     ELSE IssueRequest(req[c], token, now))
    /\ auth_log' = NoAuthLog
    /\ UNCHANGED <<now, ticks, token, token_expiry, obtained_at, faults_left,
                   cyclevars>>

\* POST /auth of _ensure_authenticated is answered: the rest of
\* async_authenticate (client.py 105-139) with the clock of this moment.  It
\* runs outside the try block of _api_request, so what it raises leaves
\* _api_request as it is; when it returns, the data request goes out in the
\* same run.
EnsureAuthenticatedReturns(c) ==
    /\ ~Returning
    /\ req[c].pc = "auth"
    /\ \E resp \in AuthResponses(server) :
         LET r == async_authenticate(resp, now, token, token_expiry)
             r1 == [Mark(req[c], IsAuthFault(resp)) EXCEPT
                      !.net_fail = IF IsNetworkFailure(resp) THEN "ensure" ELSE @,
                      !.deadline = None]
         IN /\ IsAuthFault(resp) => CanFault(req[c])
            /\ faults_left' = Charged(req[c], IsAuthFault(resp))
            /\ token' = r.token
            /\ token_expiry' = r.token_expiry
            /\ obtained_at' = ObtainedAfter(r, now, obtained_at)
            /\ auth_log' = AuthLog(resp, now, token, token_expiry, r)
            /\ req' = Put(c, IF r.raised = "none"
                             THEN IssueRequest(r1, r.token, now)
                             ELSE [r1 EXCEPT !.pc = "done",
                                             !.result = r.raised,
                                             !.cause = r.cause])
    /\ UNCHANGED <<now, ticks, cyclevars>>

\* What the server may answer to the data request `ep`.
DataResponses(srv, ep) ==
    DataFailures
    \cup [kind : {"json"}, status : {200},
          body : {Some(GoodBody(srv, ep))} \cup {Some(b) : b \in BadBodies(ep)}]

IsDataFault(srv, ep, resp) ==
    resp.kind # "json" \/ resp.body # Some(GoodBody(srv, ep))

\* The answer to a data request, noted in the activation record.
ReqAnswered(r, resp) ==
    LET st == IF resp.kind \in {"status", "json", "bad_json"}
              THEN Some(resp.status) ELSE None
    IN [r EXCEPT !.first_status = IF r.sends = 1 THEN st ELSE @,
                 !.retry_status = IF r.sends = 2 THEN st ELSE @,
                 !.net_fail = IF IsNetworkFailure(resp)
                              THEN (IF r.sends = 1 THEN "send" ELSE "retry")
                              ELSE @]

\* _api_request, lines 200-206 and 219-224: the first data request is
\* answered.  A 401/403 drops the token and sends POST /auth.
SendRequest(c) ==
    /\ ~Returning
    /\ req[c].pc = "send"
    /\ \E resp \in DataResponses(server, req[c].endpoint) :
         LET out == send_outcome(resp)
             fault == IsDataFault(server, req[c].endpoint, resp)
             r1 == Mark(ReqAnswered(req[c], resp), fault)
         IN /\ fault => CanFault(req[c])
            /\ faults_left' = Charged(req[c], fault)
            /\ CASE out = "rejected" ->
                      \* self._token = None, then await self.async_authenticate()
                      /\ token' = None
                      /\ req' = Put(c, IssueReauth(r1, now))
                 [] out = "ok" ->
                      /\ req' = Put(c, ReqReturn(r1, resp.body))
                      /\ UNCHANGED token
                 [] OTHER ->
                      /\ req' = Put(c, ReqRaise(r1, out))
                      /\ UNCHANGED token
    /\ auth_log' = NoAuthLog
    /\ UNCHANGED <<now, ticks, token_expiry, obtained_at, cyclevars>>

\* _api_request, lines 206-214: POST /auth of the re-authentication is
\* answered.  It runs inside the try block: what async_authenticate raises
\* goes through the except clauses of _api_request; when it returns, the
\* retry goes out in the same run.
Reauthenticate(c) ==
    /\ ~Returning
    /\ req[c].pc = "reauth"
    /\ \E resp \in AuthResponses(server) :
         LET r == async_authenticate(resp, now, token, token_expiry)
             r1 == [Mark(req[c], IsAuthFault(resp)) EXCEPT
                       !.net_fail = IF IsNetworkFailure(resp) THEN "reauth" ELSE @]
         IN /\ IsAuthFault(resp) => CanFault(req[c])
            /\ faults_left' = Charged(req[c], IsAuthFault(resp))
            /\ token' = r.token
            /\ token_expiry' = r.token_expiry
            /\ obtained_at' = ObtainedAfter(r, now, obtained_at)
            /\ auth_log' = AuthLog(resp, now, token, token_expiry, r)
            /\ req' = Put(c, IF r.raised = "none"
                             THEN IssueRequest(r1, r.token, now)
                             ELSE ReqRaise(r1, r.raised))
    /\ UNCHANGED <<now, ticks, cyclevars>>

\* The 30 s timeout of _api_request spans the re-authentication: it fires
\* while async_authenticate awaits its response when the 30 s are over
\* before the 10 s of async_authenticate.  The cancellation passes through
\* async_authenticate and becomes a TimeoutError in _api_request.
ReauthenticateOuterTimeout(c) ==
    /\ ~Returning
    /\ req[c].pc = "reauth"
    /\ req[c].try_deadline = Some(now)
    /\ CanFault(req[c])
    /\ faults_left' = Charged(req[c], TRUE)
    /\ req' = Put(c, ReqRaise([Mark(req[c], TRUE) EXCEPT !.net_fail = "reauth"],
                              "TimeoutError"))
    /\ auth_log' = NoAuthLog
    /\ UNCHANGED <<now, ticks, token, token_expiry, obtained_at, cyclevars>>

\* _api_request, lines 215-224: the retry is answered.
RetryRequest(c) ==
    /\ ~Returning
    /\ req[c].pc = "retry"
    /\ \E resp \in DataResponses(server, req[c].endpoint) :
         LET out == send_outcome(resp)
             fault == IsDataFault(server, req[c].endpoint, resp)
             r1 == Mark(ReqAnswered(req[c], resp), fault)
         IN /\ fault => CanFault(req[c])
            /\ faults_left' = Charged(req[c], fault)
            /\ CASE out = "rejected" /\ on_retry_rejected = "raise" ->
                      /\ req' = Put(c, ReqRaise(r1, "AuthenticationError"))
                      /\ UNCHANGED token
                 [] out = "rejected" /\ on_retry_rejected # "raise" ->
                      /\ token' = None
                      /\ req' = Put(c, IssueReauth(r1, now))
                 [] out = "ok" ->
                      /\ req' = Put(c, ReqReturn(r1, resp.body))
                      /\ UNCHANGED token
                 [] OTHER ->
                      /\ req' = Put(c, ReqRaise(r1, out))
                      /\ UNCHANGED token
    /\ auth_log' = NoAuthLog
    /\ UNCHANGED <<now, ticks, token_expiry, obtained_at, cyclevars>>

\* Time passes: a second, the 30 s of a data request less one, or the time
\* a token takes to come within a second of its expiry margin.  No await
\* outlasts its timeout.
TickSteps ==
    {1, REQUEST_TIMEOUT_SECONDS - 1,
     TOKEN_LIFETIME_SECONDS - EXPIRY_MARGIN_SECONDS - 1}

Tick ==
    /\ ~Returning
    /\ ticks < MaxTicks
    /\ \E d \in TickSteps :
         /\ \A c \in Callers :
               req[c].deadline # None => now + d <= Get(req[c].deadline)
         /\ now' = now + d
    /\ ticks' = ticks + 1
    /\ auth_log' = NoAuthLog
    /\ UNCHANGED <<token, token_expiry, obtained_at, req, faults_left,
                   cyclevars>>

\* A caller outside the fetch cycle calls async_catchup (client.py 334-347),
\* whatever the other callers are doing.
async_catchup(c, resource_id) ==
    /\ ~Returning
    /\ req[c].pc = "idle"
    /\ req' = Put(c, StartReq(Endpoint("catchup", resource_id, "")))
    /\ auth_log' = NoAuthLog
    /\ UNCHANGED <<now, ticks, token, token_expiry, obtained_at,
                   faults_left, cyclevars>>

\* The same for async_get_current (client.py 316-332).
async_get_current(c, resource_id) ==
    /\ ~Returning
    /\ req[c].pc = "idle"
    /\ req' = Put(c, StartReq(Endpoint("current", resource_id, "")))
    /\ auth_log' = NoAuthLog
    /\ UNCHANGED <<now, ticks, token, token_expiry, obtained_at,
                   faults_left, cyclevars>>

\* ... and takes its result.
CatchupReturns(c) ==
    /\ req[c].pc = "done"
    /\ req[c].endpoint.kind \in {"catchup", "current"}
    /\ req' = Put(c, IdleReq)
    /\ auth_log' = NoAuthLog
    /\ UNCHANGED <<now, ticks, token, token_expiry, obtained_at,
                   faults_left, cyclevars>>

\* A caller calls async_authenticate itself (as validate_credentials does,
\* config_flow_handler/validators/credentials.py 47): POST /auth goes out.
direct_authenticate(c) ==
    /\ ~Returning
    /\ req[c].pc = "idle"
    /\ req' = Put(c, [IdleReq EXCEPT
                        !.pc = "direct",
                        !.deadline = Some(now + AUTH_TIMEOUT_SECONDS)])
    /\ auth_log' = NoAuthLog
    /\ UNCHANGED <<now, ticks, token, token_expiry, obtained_at,
                   faults_left, cyclevars>>

\* ... and is answered: the rest of async_authenticate.
DirectAuthenticateReturns(c) ==
    /\ ~Returning
    /\ req[c].pc = "direct"
    /\ \E resp \in AuthResponses(server) :
         LET r == async_authenticate(resp, now, token, token_expiry)
         IN /\ IsAuthFault(resp) => faults_left # 0
            /\ faults_left' = IF IsAuthFault(resp) /\ faults_left > 0
                              THEN faults_left - 1 ELSE faults_left
            /\ token' = r.token
            /\ token_expiry' = r.token_expiry
            /\ obtained_at' = ObtainedAfter(r, now, obtained_at)
            /\ auth_log' = AuthLog(resp, now, token, token_expiry, r)
    /\ req' = Put(c, IdleReq)
    /\ UNCHANGED <<now, ticks, cyclevars>>

----------------------------------------------------------------------------
(* async_get_data: api/client.py 349-471 *)

\* A dict, as a function.
EmptyDict == [k \in {} |-> None]
DictPut(d, k, v) == [x \in (DOMAIN d) \cup {k} |-> IF x = k THEN v ELSE d[x]]
DictGet(d, k) == IF k \in DOMAIN d THEN Some(d[k]) ELSE None

\* Python truthiness of an optional string
StrTruthy(o) == o # None /\ Get(o) # ""

\* resource.get("classifier", ""): the default for a missing key only; for
\* a null classifier it is Python's None, here Null.
ClassifierOf(resource) ==
    CASE resource.classifier = None -> <<>>
      [] resource.classifier = Null -> Null
      [] OTHER -> Get(resource.classifier)

\* The window a readings sub-fetch stores under, and the period it asks for.
PeriodOf(step) ==
    CASE step = "current" -> "PT1M"
      [] step = "today" -> "P1D"
      [] step = "week" -> "P1W"
      [] OTHER -> "P1M"

\* The exceptions the try blocks around the sub-fetches swallow:
\* except HildebrandGlowEnergyMonitorApiClientError (the base class).
ApiClientErrors == {"AuthenticationError", "CommunicationError", "ApiClientError"}

AltSubfetchCatchesOnlyCommunication(exc) == exc = "CommunicationError"

subfetch_catches(exc) == exc \in ApiClientErrors

\* The activation record of async_get_data.
\*   pc     : "idle", "done", or the call it awaits: "virtualentity",
\*            "resources", "current", "today", "week", "month", "tariff"
\*   call   : the request it awaits
\*   ves, vi       : the list iterated by `for ve in virtual_entities`, index
\*   resources, ri : the list iterated by `for resource in resources`, index
\*   meter_data    : the meter record being filled
\*   result : the dict being built; `order` is the insertion order of
\*            result["meters"]
\*   raised : the exception that left async_get_data ("" if none)
\*   log    : ghost, the sub-fetches attempted so far and whether each
\*            succeeded
NoMeterData ==
    [virtual_entity |-> MeterNoId, resources |-> <<>>, readings |-> EmptyDict,
     current |-> EmptyDict, tariffs |-> EmptyDict]

IdleGd ==
    [pc |-> "idle", call |-> NoEndpoint, ves |-> <<>>, vi |-> 0,
     resources |-> <<>>, ri |-> 0, meter_data |-> NoMeterData,
     result |-> [virtual_entities |-> <<>>, meters |-> EmptyDict, order |-> <<>>],
     raised |-> "", log |-> <<>>]

\* Lines 360-366: the empty result and the first call.
GdStart ==
    [IdleGd EXCEPT !.pc = "virtualentity",
                   !.call = Endpoint("virtualentity", "", "")]

\* Lines 370-376: the next virtual entity with a veId, from index `from` on,
\* and the request for its resources; line 471 when there is none.
NextVe(g, from) ==
    LET idx == { i \in from..Len(g.ves) : StrTruthy(g.ves[i].veId) }
    IN IF idx = {}
       THEN [g EXCEPT !.pc = "done", !.vi = Len(g.ves) + 1]
       ELSE LET i == CHOOSE x \in idx : \A y \in idx : x <= y
            IN [g EXCEPT !.pc = "resources", !.vi = i,
                         !.call = Endpoint("resources", Get(g.ves[i].veId), "")]

\* An exception leaves async_get_data: nothing is returned.
AltGdRaiseSkipsMeter(g, exc) ==
    IF g.pc = "resources" /\ exc \in {"AuthenticationError", "CommunicationError",
                                       "ApiClientError"}
    THEN NextVe(g, g.vi + 1)
    ELSE [g EXCEPT !.pc = "done", !.raised = exc]

GdRaise(g, exc) == [g EXCEPT !.pc = "done", !.raised = exc]

\* The first sub-fetch of a resource: lines 403 and 426.
FirstStep(classifier) ==
    IF ~Contains(classifier, "cost") THEN "current" ELSE "today"

AltStepAfterTariffOfEveryResource(step, classifier) ==
    CASE step = "current" -> "today"
      [] step = "today" -> "week"
      [] step = "week" -> "month"
      [] step = "month" -> "tariff"
      [] OTHER -> "end"

\* The sub-fetch after `step`: lines 426-467.
StepAfter(step, classifier) ==
    CASE step = "current" -> "today"
      [] step = "today" -> "week"
      [] step = "week" -> "month"
      [] step = "month" ->
           IF ~Contains(classifier, "cost") THEN "tariff" ELSE "end"
      [] OTHER -> "end"

SubfetchCall(step, rid) ==
    IF step = "tariff" THEN Endpoint("tariff", rid, "")
    ELSE Endpoint("readings", rid, PeriodOf(step))

\* Line 469: result["meters"][ve_id] = meter_data
StoreMeter(g) ==
    LET id == Get(g.ves[g.vi].veId)
    IN [g EXCEPT !.result.meters = DictPut(@, id, g.meter_data),
                 !.result.order = IF id \in DOMAIN g.result.meters
                                  THEN @ ELSE Append(@, id)]

\* Lines 393-400: the next resource with a resourceId, from index `from` on,
\* and its first sub-fetch; lines 469-471 when there is none.
NextRes(g, from) ==
    LET idx == { j \in from..Len(g.resources) : StrTruthy(g.resources[j].resourceId) }
    IN IF idx = {}
       THEN NextVe(StoreMeter(g), g.vi + 1)
       ELSE LET j == CHOOSE x \in idx : \A y \in idx : x <= y
                c == ClassifierOf(g.resources[j])
            IN \* line 403: "cost" not in None, outside the try blocks
               IF c = Null THEN GdRaise([g EXCEPT !.ri = j], "TypeError")
               ELSE [g EXCEPT !.ri = j, !.pc = FirstStep(c),
                              !.call = SubfetchCall(FirstStep(c),
                                                    Get(g.resources[j].resourceId))]

\* After the sub-fetch `step` of the current resource: the next sub-fetch, or
\* the next resource.
AfterStep(g, step) ==
    LET res == g.resources[g.ri]
        c == ClassifierOf(res)
        nxt == StepAfter(step, c)
    IN IF nxt = "end"
       THEN NextRes(g, g.ri + 1)
       ELSE [g EXCEPT !.pc = nxt,
                      !.call = SubfetchCall(nxt, Get(res.resourceId))]

\* async_get_data resumes when the request it awaits ends with `outcome`
\* ("ok" and the body, or the exception _api_request raised).
get_data_resume(g, outcome, body) ==
    CASE g.pc = "virtualentity" ->
           \* line 366: not inside a try block
           IF outcome # "ok" THEN GdRaise(g, outcome)
           \* for ve in <a JSON object>: ve is a key, a str; ve.get fails
           ELSE IF Get(body).shape = "object"
           THEN GdRaise([g EXCEPT !.result.virtual_entities = <<>>], "AttributeError")
           \* for ve in {} and for ve in []: no iteration
           ELSE IF Get(body).shape # "list"
           THEN NextVe([g EXCEPT !.ves = <<>>], 1)
           ELSE NextVe([g EXCEPT !.ves = Get(body).items,
                                 !.result.virtual_entities = Get(body).items], 1)
      [] g.pc = "resources" ->
           \* line 376: not inside a try block
           IF outcome # "ok" THEN GdRaise(g, outcome)
           \* async_get_resources: response.get("resources", []) on a list
           ELSE IF Get(body).shape \in {"list", "empty_list"}
           THEN GdRaise(g, "AttributeError")
           \* line 377: len(resources) of response.get("resources", []) = None
           ELSE IF Get(body).resources = Null THEN GdRaise(g, "TypeError")
           ELSE LET rs == IF Get(body).resources = None THEN <<>>
                          ELSE Get(Get(body).resources)
                IN NextRes([g EXCEPT !.resources = rs,
                                     !.meter_data =
                                        [NoMeterData EXCEPT
                                           !.virtual_entity = g.ves[g.vi],
                                           !.resources = rs]], 1)
      [] OTHER ->
           LET step == g.pc
               res == g.resources[g.ri]
               c == ClassifierOf(res)
               g1 == [g EXCEPT !.log = Append(@, [step |-> step,
                                                  id |-> Get(res.resourceId),
                                                  ok |-> outcome = "ok"])]
           IN IF outcome # "ok"
              THEN IF subfetch_catches(outcome)
                   THEN AfterStep(g1, step)
                   ELSE GdRaise(g1, outcome)
              ELSE CASE step = "current" ->
                          \* line 419 stores, line 420 reads current.get("data")
                          LET g2 == [g1 EXCEPT !.meter_data.current =
                                                  DictPut(@, c, Get(body))]
                          IN IF Get(body).shape \in {"list", "empty_list"}
                             THEN GdRaise(g2, "AttributeError")
                             \* len(current.get("data", [])) of None
                             ELSE IF Get(body).data = Null
                             THEN GdRaise(g2, "TypeError")
                             ELSE AfterStep(g2, step)
                     [] step = "tariff" ->
                          AfterStep([g1 EXCEPT !.meter_data.tariffs =
                                                  DictPut(@, c, Get(body))], step)
                     [] OTHER ->
                          AfterStep([g1 EXCEPT !.meter_data.readings =
                                                  DictPut(@, <<c, step>>, Get(body))],
                                    step)

----------------------------------------------------------------------------
(* The update coordinator: coordinator/base.py *)

\* A number of the wire and of the snapshot is a decimal number n / Unit,
\* kept as the integer n.  The code computes on Python floats, which are
\* IEEE-754 doubles: a double is a sign and a magnitude, the magnitude a
\* natural number of units of 2^-FracBits kept as a little-endian sequence
\* of limbs below Base (the integers of the model checker have 32 bits).
Base == 4096
LimbBits == 12
FracLimbs == 6
FracBits == LimbBits * FracLimbs
MantissaBits == 53

\* F of the value of x, and of the values of x and y: an operand is
\* evaluated once, however often F uses it.
Bind(x, F(_)) == CHOOSE r \in { F(v) : v \in {x} } : TRUE
Bind2(x, y, F(_, _)) == CHOOSE r \in { F(v, w) : v \in {x}, w \in {y} } : TRUE

Limb(x, i) == IF i <= Len(x) THEN x[i] ELSE 0

\* x without its leading zero limbs
BigNorm(x) ==
    Bind({ i \in 1..Len(x) : x[i] # 0 },
         LAMBDA nz : IF nz = {} THEN <<>>
                     ELSE SubSeq(x, 1, CHOOSE i \in nz : \A j \in nz : j <= i))

RECURSIVE BigFromInt(_)
BigFromInt(n) == IF n = 0 THEN <<>> ELSE <<n % Base>> \o BigFromInt(n \div Base)

RECURSIVE BigToIntFrom(_, _)
BigToIntFrom(x, i) ==
    IF i > Len(x) THEN 0 ELSE x[i] + Base * BigToIntFrom(x, i + 1)

BigToInt(x) == Bind(x, LAMBDA v : BigToIntFrom(v, 1))

RECURSIVE BigAddFrom(_, _, _, _)
BigAddFrom(x, y, i, carry) ==
    IF i > Len(x) /\ i > Len(y)
    THEN BigFromInt(carry)
    ELSE Bind(Limb(x, i) + Limb(y, i) + carry,
              LAMBDA t : <<t % Base>> \o BigAddFrom(x, y, i + 1, t \div Base))

BigAdd(x, y) == Bind2(x, y, LAMBDA v, w : BigAddFrom(v, w, 1, 0))

\* x - y for x >= y
RECURSIVE BigSubFrom(_, _, _, _)
BigSubFrom(x, y, i, borrow) ==
    IF i > Len(x)
    THEN <<>>
    ELSE Bind(Limb(x, i) - Limb(y, i) - borrow,
              LAMBDA t : <<t % Base>>
                         \o BigSubFrom(x, y, i + 1, IF t < 0 THEN 1 ELSE 0))

BigSub(x, y) == BigNorm(Bind2(x, y, LAMBDA v, w : BigSubFrom(v, w, 1, 0)))

RECURSIVE BigCmpAt(_, _, _)
BigCmpAt(x, y, i) ==
    IF i = 0 THEN 0
    ELSE IF x[i] # y[i] THEN (IF x[i] < y[i] THEN -1 ELSE 1)
    ELSE BigCmpAt(x, y, i - 1)

\* -1, 0 or 1 as x <, =, > y
BigCmp(x, y) ==
    Bind2(x, y, LAMBDA v, w :
        IF Len(v) # Len(w) THEN (IF Len(v) < Len(w) THEN -1 ELSE 1)
        ELSE BigCmpAt(v, w, Len(v)))

RECURSIVE BigMulFrom(_, _, _, _)
BigMulFrom(x, s, i, carry) ==
    IF i > Len(x)
    THEN BigFromInt(carry)
    ELSE Bind(x[i] * s + carry,
              LAMBDA t : <<t % Base>> \o BigMulFrom(x, s, i + 1, t \div Base))

\* x * s for 0 <= s <= 10^5
BigMulSmall(x, s) == BigNorm(Bind2(x, s, LAMBDA v, w : BigMulFrom(v, w, 1, 0)))

\* The limbs of x from limb i down divided by dv, r the remainder of the
\* limbs above and q their quotient.
RECURSIVE BigDivAt(_, _, _, _, _)
BigDivAt(x, dv, i, r, q) ==
    IF i = 0 THEN [q |-> q, r |-> r]
    ELSE Bind2(r * Base + x[i], q,
               LAMBDA t, vq : BigDivAt(x, dv, i - 1, t % dv, <<t \div dv>> \o vq))

\* quotient and remainder of x by dv, 0 < dv <= 10^5
BigDivSmall(x, dv) ==
    Bind(Bind2(x, dv, LAMBDA v, w : BigDivAt(v, w, Len(v), 0, <<>>)),
         LAMBDA qr : [q |-> BigNorm(qr.q), r |-> qr.r])

BigShiftLimbs(x, n) ==
    Bind(x, LAMBDA v : IF v = <<>> THEN <<>> ELSE [i \in 1..n |-> 0] \o v)

BigShiftLeft(x, bits) ==
    BigMulSmall(BigShiftLimbs(x, bits \div LimbBits), 2 ^ (bits % LimbBits))

BigShiftRight(x, bits) ==
    Bind2(x, bits, LAMBDA v, b :
        BigDivSmall(SubSeq(v, b \div LimbBits + 1, Len(v)), 2 ^ (b % LimbBits)).q)

\* the number of bits of x
BitLen(x) ==
    Bind(x, LAMBDA v :
        IF v = <<>> THEN 0
        ELSE LimbBits * (Len(v) - 1)
             + (CHOOSE k \in 1..LimbBits :
                   2 ^ (k - 1) <= v[Len(v)] /\ v[Len(v)] < 2 ^ k))

\* bit i of x, the lowest being bit 0
BigBit(x, i) == (Limb(x, i \div LimbBits + 1) \div 2 ^ (i % LimbBits)) % 2

\* some bit of x below bit n is set
BigLowBits(x, n) ==
    \/ \E j \in 1..(n \div LimbBits) : Limb(x, j) # 0
    \/ Limb(x, n \div LimbBits + 1) % 2 ^ (n % LimbBits) # 0

\* x with its n lowest bits dropped, rounded to nearest, ties to even;
\* sticky says that x stands for a little more than x.
RoundShift(x, n, sticky) ==
    Bind2(x, n, LAMBDA v, b :
        IF b <= 0 THEN v
        ELSE Bind(BigShiftRight(v, b), LAMBDA q :
                 IF BigBit(v, b - 1) = 1
                    /\ (sticky \/ BigLowBits(v, b - 1) \/ Limb(q, 1) % 2 = 1)
                 THEN BigAdd(q, <<1>>) ELSE q))

\* x rounded to MantissaBits significant bits
RoundSig(x, sticky) ==
    Bind(x, LAMBDA v :
        Bind(BitLen(v) - MantissaBits, LAMBDA n :
            IF n <= 0 THEN v ELSE BigShiftLeft(RoundShift(v, n, sticky), n)))

FZero == [neg |-> FALSE, mag |-> <<>>]
FNeg(a) == [neg |-> ~a.neg, mag |-> a.mag]

\* a + b of two doubles
FAdd(a, b) ==
    Bind2(a, b, LAMBDA va, vb :
        IF va.neg = vb.neg
        THEN [neg |-> va.neg, mag |-> RoundSig(BigAdd(va.mag, vb.mag), FALSE)]
        ELSE Bind(BigCmp(va.mag, vb.mag), LAMBDA c :
                 CASE c = 0 -> FZero
                   [] c > 0 -> [neg |-> va.neg,
                                mag |-> RoundSig(BigSub(va.mag, vb.mag), FALSE)]
                   [] OTHER -> [neg |-> vb.neg,
                                mag |-> RoundSig(BigSub(vb.mag, va.mag), FALSE)]))

\* fabs(a) >= fabs(b)
FAbsGe(a, b) == BigCmp(a.mag, b.mag) >= 0

\* The double nearest to n / scale, for a natural n and scale <= 10^5:
\* what float("...") gives for a decimal number.
ToDouble(n, scale) ==
    Bind(BigDivSmall(BigShiftLimbs(BigFromInt(n), 2 * FracLimbs), scale),
         LAMBDA qr : [neg |-> FALSE,
                      mag |-> BigShiftRight(RoundSig(qr.q, qr.r # 0), FracBits)])

\* a / dv of a double a >= 0 by the double of a natural 0 < dv <= 10^5
FDivSmall(a, dv) ==
    Bind(BigDivSmall(BigShiftLimbs(a.mag, FracLimbs), dv),
         LAMBDA qr : [neg |-> FALSE,
                      mag |-> BigShiftRight(RoundSig(qr.q, qr.r # 0), FracBits)])

\* round(a, ndigits) of a double a >= 0, as the natural k with the result
\* the double nearest to k / 10^ndigits: the exact value of a is rounded,
\* ties to even.
FRound(a, ndigits) ==
    BigToInt(RoundShift(BigMulSmall(a.mag, 10 ^ ndigits), FracBits, FALSE))

\* sum() of the doubles xs[i], xs[i+1], ... added to hi + lo: Neumaier's
\* compensated summation (CPython 3.12 and later).
RECURSIVE FSumFrom(_, _, _, _)
FSumFrom(xs, i, hi, lo) ==
    IF i > Len(xs)
    THEN IF lo.mag # <<>> THEN FAdd(hi, lo) ELSE hi
    ELSE Bind2(xs[i], FAdd(hi, xs[i]), LAMBDA x, t :
            Bind(FAdd(lo, IF FAbsGe(hi, x)
                          THEN FAdd(FAdd(hi, FNeg(t)), x)
                          ELSE FAdd(FAdd(x, FNeg(t)), hi)),
                 LAMBDA c : FSumFrom(xs, i + 1, t, c)))

FSum(xs) == Bind(xs, LAMBDA v : FSumFrom(v, 1, FZero, FZero))

\* The decimal number n / unit lies halfway between two numbers of ndigits
\* decimals.
IsTie(n, unit, ndigits) ==
    LET step == unit \div 10 ^ ndigits IN 2 * (n % step) = step

\* The nearest multiple of `step`, ties to even.  A double computed from
\* decimal numbers of at most seven decimals differs from the exact result
\* by less than 2^-30, so that round() of the double is round() of the exact
\* result unless that is a tie; at a tie the double decides (FRound).
RoundTo(x, step) ==
    LET q == x \div step
        r == x % step
    IN CASE 2 * r < step -> q * step
         [] 2 * r > step -> (q + 1) * step
         [] OTHER -> IF q % 2 = 0 THEN q * step ELSE (q + 1) * step

\* The sum of a sequence of integers.
RECURSIVE SumSeq(_)
SumSeq(sq) == IF sq = <<>> THEN 0 ELSE Head(sq) + SumSeq(Tail(sq))

\* The doubles of a sequence of numbers.
Doubles(sq) == [i \in 1..Len(sq) |-> ToDouble(sq[i], Unit)]

\* A value or the exception raised instead of it.
Val(v) == [exc |-> "", v |-> v]
Exc(e) == [exc |-> e, v |-> None]

\* The items the generator of line 203 keeps:
\* `for item in data if len(item) >= 2 and item[1] is not None`.
AltValidItemsUntilInvalid(d) ==
    SubSeq(d, 1, CHOOSE n \in 0..Len(d) :
                    /\ \A i \in 1..n : Len(d[i].elems) >= 2 /\ d[i].elems[2] # None
                    /\ n < Len(d) =>
                          ~(Len(d[n + 1].elems) >= 2 /\ d[n + 1].elems[2] # None))

ValidItems(d) ==
    SelectSeq(d, LAMBDA item : Len(item.elems) >= 2 /\ item.elems[2] # None)

\* What the entry `item` makes line 203 raise ("" if nothing): a number has
\* no len(); item[1] of an object of two keys or more is a KeyError; item[1]
\* of a string of two characters or more is a character, which sum() cannot
\* add.  A string or an object shorter than 2 is left out like a short list.
ItemRaises(item) ==
    CASE item.kind = "number" -> "TypeError"
      [] item.kind = "string" /\ item.len >= 2 -> "TypeError"
      [] item.kind = "object" /\ item.len >= 2 -> "KeyError"
      [] OTHER -> ""

\* _extract_reading_value from its line 198 on (base.py 198-204), for a
\* readings body that is there.
ExtractFromBody(reading_data) ==
    \* a non-empty JSON list is truthy and has no .get
    IF Get(reading_data).shape # "object" THEN Exc("AttributeError")
    ELSE LET d == IF Get(reading_data).data \in {None, Null} THEN <<>>
                  ELSE Get(Get(reading_data).data)
         IN IF d = <<>> THEN Val(None)
            \* sum() takes the entries in order: the first that raises ends it
            ELSE IF \E i \in 1..Len(d) : ItemRaises(d[i]) # ""
            THEN Exc(ItemRaises(d[CHOOSE i \in 1..Len(d) :
                                    /\ ItemRaises(d[i]) # ""
                                    /\ \A j \in 1..(i - 1) : ItemRaises(d[j]) = ""]))
            ELSE LET valid == ValidItems(d)
                     values == [i \in 1..Len(valid) |-> Get(valid[i].elems[2])]
                     total == SumSeq(values)
                 IN Val(Some(IF IsTie(total, Unit, 3)
                             THEN (Unit \div 1000) * FRound(FSum(Doubles(values)), 3)
                             ELSE RoundTo(total, Unit \div 1000)))

\* `not body` for the option of a JSON body: None, {} and [] are falsy.
Falsy(body) ==
    body = None \/ Get(body).shape \in {"empty_object", "empty_list"}

AltExtractReadingValueZeroWhenAbsent(reading_data) ==
    IF Falsy(reading_data) THEN Val(Some(0)) ELSE ExtractFromBody(reading_data)

\* _extract_reading_value (base.py 185-204).  reading_data is the option of
\* a readings body.
_extract_reading_value(reading_data) ==
    IF Falsy(reading_data) THEN Val(None) ELSE ExtractFromBody(reading_data)

\* _pence_to_gbp (base.py 206-218): round(pence / 100.0, 2)
AltPenceToGbpIdentity(pence) == pence

_pence_to_gbp(pence) ==
    IF pence = None THEN None
    ELSE LET p == Get(pence)
         IN Some((Unit \div 100)
                 * (IF IsTie(p, 100 * Unit, 2)
                    THEN FRound(FDivSmall(ToDouble(p, Unit), 100), 2)
                    ELSE RoundTo(p, Unit) \div Unit))

\* data[0].get("currentRates", {}) of a tariff body (base.py 230-238)
CurrentRates(tariff_data) ==
    IF Falsy(tariff_data) THEN Val(None)
    ELSE IF Get(tariff_data).shape # "object" THEN Exc("AttributeError")
    ELSE LET d == IF Get(tariff_data).data \in {None, Null} THEN <<>>
                  ELSE Get(Get(tariff_data).data)
         IN IF d = <<>> THEN Val(None)
            \* current_rates.get of None, for a currentRates that is null
            ELSE IF d[1].currentRates = Null THEN Exc("AttributeError")
            ELSE Val(d[1].currentRates)

\* _extract_tariff_rate (base.py 220-240)
_extract_tariff_rate(tariff_data) ==
    LET cr == CurrentRates(tariff_data)
    IN IF cr.exc # "" THEN cr
       ELSE IF cr.v = None \/ Get(cr.v).rate = None THEN Val(None)
       ELSE LET rate == Get(Get(cr.v).rate)
            IN Val(Some(IF IsTie(rate, Unit, 4)
                        THEN (Unit \div 10000) * FRound(ToDouble(rate, Unit), 4)
                        ELSE RoundTo(rate, Unit \div 10000)))

\* _extract_standing_charge (base.py 242-261)
_extract_standing_charge(tariff_data) ==
    LET cr == CurrentRates(tariff_data)
    IN IF cr.exc # "" THEN cr
       ELSE IF cr.v = None \/ Get(cr.v).standingCharge = None THEN Val(None)
       ELSE LET charge == Get(Get(cr.v).standingCharge)
            IN Val(Some(IF IsTie(charge, Unit, 2)
                        THEN (Unit \div 100) * FRound(ToDouble(charge, Unit), 2)
                        ELSE RoundTo(charge, Unit \div 100)))

\* The model label (base.py 121-129)
ModelLabel(has_electricity, has_gas) ==
    CASE has_electricity /\ has_gas -> "Electricity & Gas Smart Meter"
      [] has_electricity -> "Electricity Smart Meter"
      [] has_gas -> "Gas Smart Meter"
      [] OTHER -> "Smart Meter"

Windows == <<"today", "week", "month">>

\* The sixteen extractions of one meter record, in the order the dict
\* literal evaluates them (base.py 139-178).
Extractions(md) ==
    LET totals(c) == [i \in 1..3 |->
                        _extract_reading_value(DictGet(md.readings, <<c, Windows[i]>>))]
    IN totals(CLASSIFIER_ELECTRICITY_CONSUMPTION)
       \o totals(CLASSIFIER_ELECTRICITY_COST)
       \o totals(CLASSIFIER_GAS_CONSUMPTION)
       \o totals(CLASSIFIER_GAS_COST)
       \o << _extract_tariff_rate(DictGet(md.tariffs, CLASSIFIER_ELECTRICITY_CONSUMPTION)),
             _extract_standing_charge(DictGet(md.tariffs, CLASSIFIER_ELECTRICITY_CONSUMPTION)),
             _extract_tariff_rate(DictGet(md.tariffs, CLASSIFIER_GAS_CONSUMPTION)),
             _extract_standing_charge(DictGet(md.tariffs, CLASSIFIER_GAS_CONSUMPTION)) >>

\* any(r.get("classifier", "").startswith(word) for r in resources)
\* (base.py 118-119): it stops at the first resource that matches; a null
\* classifier met before has no startswith.
AnyClassifierStartsWith(resources, word) ==
    LET stop == { i \in 1..Len(resources) :
                    \/ ClassifierOf(resources[i]) = Null
                    \/ StartsWith(ClassifierOf(resources[i]), word) }
    IN IF stop = {} THEN [exc |-> "", v |-> FALSE]
       ELSE LET i == CHOOSE x \in stop : \A y \in stop : x <= y
            IN IF ClassifierOf(resources[i]) = Null
               THEN [exc |-> "AttributeError", v |-> FALSE]
               ELSE [exc |-> "", v |-> TRUE]

\* ve.get("name", "Smart Meter") (base.py 133): the option of a string
NameOf(ve) ==
    CASE ve.name = None -> Some("Smart Meter")
      [] ve.name = Null -> None
      [] OTHER -> ve.name

\* One iteration of the loop of _transform_data (base.py 111-181): the
\* record of one meter, or the exception the flags or an extraction raise.
transform_meter(meter_id, md) ==
    LET ve == md.virtual_entity
        resources == md.resources
        any_electricity == AnyClassifierStartsWith(resources, "electricity")
        any_gas == AnyClassifierStartsWith(resources, "gas")
        has_electricity == any_electricity.v
        has_gas == any_gas.v
    IN IF any_electricity.exc # "" THEN Exc(any_electricity.exc)
       ELSE IF any_gas.exc # "" THEN Exc(any_gas.exc)
       ELSE
       Bind(Extractions(md), LAMBDA x :
       IF \E i \in 1..Len(x) : x[i].exc # ""
       THEN Exc(x[CHOOSE i \in 1..Len(x) :
                     x[i].exc # "" /\ \A j \in 1..(i - 1) : x[j].exc = ""].exc)
       ELSE Val(Some(
         [meter_id |-> meter_id,
          name |-> NameOf(ve),
          postal_code |-> ve.postalCode,
          model |-> ModelLabel(has_electricity, has_gas),
          has_electricity |-> has_electricity,
          has_gas |-> has_gas,
          electricity_usage_today |-> x[1].v,
          electricity_usage_week |-> x[2].v,
          electricity_usage_month |-> x[3].v,
          electricity_cost_today |-> _pence_to_gbp(x[4].v),
          electricity_cost_week |-> _pence_to_gbp(x[5].v),
          electricity_cost_month |-> _pence_to_gbp(x[6].v),
          gas_usage_today |-> x[7].v,
          gas_usage_week |-> x[8].v,
          gas_usage_month |-> x[9].v,
          gas_cost_today |-> _pence_to_gbp(x[10].v),
          gas_cost_week |-> _pence_to_gbp(x[11].v),
          gas_cost_month |-> _pence_to_gbp(x[12].v),
          electricity_rate |-> x[13].v,
          electricity_standing_charge |-> _pence_to_gbp(x[14].v),
          gas_rate |-> x[15].v,
          gas_standing_charge |-> _pence_to_gbp(x[16].v)])))

\* _transform_data as a whole (base.py 93-183): the snapshot for a raw
\* result whose every meter transforms.
TransformAll(result) ==
    [meters |-> [id \in DOMAIN result.meters |->
                    Get(transform_meter(id, result.meters[id]).v)]]

Transformable(result) ==
    \A id \in DOMAIN result.meters : transform_meter(id, result.meters[id]).exc = ""

\* The except clauses of _async_update_data (base.py 80-91): what leaves it
\* when `exc` is raised by async_get_data or _transform_data.
AltUpdateDataExceptAllUpdateFailed(exc) ==
    IF exc \in ApiClientErrors THEN "UpdateFailed" ELSE exc

update_data_except(exc) ==
    CASE exc = "AuthenticationError" -> "ConfigEntryAuthFailed"
      [] exc \in ApiClientErrors -> "UpdateFailed"
      [] OTHER -> exc

\* The snapshot objects: transformed = {"meters": {}} makes a new dict
\* (base.py 105-107), one that is not the published one.
ObjIds == {"dictA", "dictB"}

AltTransformedDictInPlace(published_ref) ==
    IF published_ref = None THEN "dictA" ELSE Get(published_ref)

transformed_dict(published_ref) ==
    CHOOSE id \in ObjIds : Some(id) # published_ref

\* The snapshot an entity reads through coordinator.data (None before the
\* first successful cycle).
Snapshot == IF data = None THEN None ELSE heap[Get(data)]

\* transformed = {"meters": {}} (base.py 105-107): what the new dict holds
\* before the loop, whatever the previous snapshot `prev` holds.
AltNewTransformedMergesPrevious(prev) ==
    IF prev = None THEN [meters |-> EmptyDict] ELSE Get(prev)

NewTransformed(prev) == [meters |-> EmptyDict]

\* The activation of _async_update_data and how it ended.
\*   state  : "Idle", "Fetching", "Transforming", "Success", "AuthFailed",
\*            "UpdateFailed" or "Crashed" (another exception left it)
\*   raised : what _async_update_data raised ("" if nothing)
\*   cause  : the exception it was raised from
\*   raw    : the local `data`, what async_get_data returned (base.py 78)
\*   target : the dict _transform_data fills (option of an object id)
\*   todo   : the meters _transform_data has still to do
IdleCo == [state |-> "Idle", raised |-> "", cause |-> "", raw |-> IdleGd.result,
           target |-> None, todo |-> <<>>]

CoRaised(exc) ==
    [state |-> CASE update_data_except(exc) = "ConfigEntryAuthFailed" -> "AuthFailed"
                 [] update_data_except(exc) = "UpdateFailed" -> "UpdateFailed"
                 [] OTHER -> "Crashed",
     raised |-> update_data_except(exc),
     \* `raise ... from exception` in the two except clauses only
     cause |-> IF update_data_except(exc) = exc THEN "" ELSE exc,
     raw |-> IdleGd.result,
     target |-> None, todo |-> <<>>]

Fetching == co.state \in {"Fetching", "Transforming"}

\* The host's DataUpdateCoordinator after _async_update_data returned the
\* dict `ref`: it becomes coordinator.data, the dict it replaces is dropped.
HostRefreshSucceeded(ref, h) ==
    /\ data' = Some(ref)
    /\ last_update_success' = TRUE
    /\ heap' = [id \in ObjIds |-> IF id = ref THEN h[id] ELSE None]

\* The host's DataUpdateCoordinator after _async_update_data raised:
\* coordinator.data stays, last_update_success is false.
HostRefreshFailed ==
    /\ last_update_success' = FALSE
    /\ UNCHANGED data

\* The host's timer (or a refresh request) starts a fetch cycle:
\* _async_update_data calls async_get_data (base.py 77-78), which issues its
\* first request.
UpdateBegin ==
    /\ ~Fetching
    /\ cycles_left > 0
    /\ req[Fetcher].pc = "idle"
    /\ cycles_left' = cycles_left - 1
    /\ co' = [IdleCo EXCEPT !.state = "Fetching"]
    /\ gd' = GdStart
    /\ req' = Put(Fetcher, StartReq(GdStart.call))
    /\ UNCHANGED <<now, ticks, token, token_expiry, obtained_at, auth_log,
                   faults_left, server, heap, data, last_update_success,
                   published,
                   entities, svc, demo>>

\* async_get_data takes the result of the request it awaited and goes on to
\* its next request, or ends.
GetDataResume ==
    /\ co.state = "Fetching"
    /\ gd.pc \notin {"idle", "done"}
    /\ req[Fetcher].pc = "done"
    /\ LET g == get_data_resume(gd, req[Fetcher].result, req[Fetcher].body)
       IN /\ gd' = g
          /\ req' = Put(Fetcher, IF g.pc = "done" THEN IdleReq
                                 ELSE StartReq(g.call))
    /\ auth_log' = NoAuthLog
    /\ UNCHANGED <<now, ticks, token, token_expiry, obtained_at, faults_left,
                   server, cycles_left, co, heap, data, last_update_success,
                   published,
                   entities, svc, demo>>

\* async_get_data raised: the except clauses of _async_update_data.
UpdateRaises ==
    /\ co.state = "Fetching"
    /\ gd.pc = "done"
    /\ gd.raised # ""
    /\ co' = CoRaised(gd.raised)
    /\ gd' = IdleGd
    /\ HostRefreshFailed
    /\ UNCHANGED <<now, ticks, clientvars, faults_left, server, cycles_left,
                   heap, published,
                   entities, svc, demo>>

\* async_get_data returned: _transform_data starts with an empty dict.
TransformBegin ==
    /\ co.state = "Fetching"
    /\ gd.pc = "done"
    /\ gd.raised = ""
    /\ LET target == transformed_dict(data)
       IN /\ heap' = [heap EXCEPT ![target] = Some(NewTransformed(Snapshot))]
          /\ co' = [co EXCEPT !.state = "Transforming", !.raw = gd.result,
                              !.target = Some(target),
                              !.todo = gd.result.order]
    /\ gd' = IdleGd
    /\ UNCHANGED <<now, ticks, clientvars, faults_left, server, cycles_left,
                   data, last_update_success, published,
                   entities, svc, demo>>

\* One iteration of `for meter_id, meter_data in meters.items()`.
TransformMeter ==
    /\ co.state = "Transforming"
    /\ co.todo # <<>>
    /\ LET id == Head(co.todo)
           target == Get(co.target)
           t == transform_meter(id, co.raw.meters[id])
       IN IF t.exc # ""
          THEN /\ co' = CoRaised(t.exc)
               /\ heap' = [heap EXCEPT ![target] =
                              IF Some(target) = data THEN @ ELSE None]
               /\ HostRefreshFailed
          ELSE /\ co' = [co EXCEPT !.todo = Tail(@)]
               /\ heap' = [heap EXCEPT ![target] =
                              Some([meters |-> DictPut(Get(@).meters, id, Get(t.v))])]
               /\ UNCHANGED <<data, last_update_success>>
    /\ UNCHANGED <<now, ticks, clientvars, faults_left, server, cycles_left,
                   gd, published,
                   entities, svc, demo>>

\* _transform_data returns the dict, _async_update_data returns it
\* (base.py 79, 183) and the host publishes it.
UpdateReturns ==
    /\ co.state = "Transforming"
    /\ co.todo = <<>>
    /\ co' = [co EXCEPT !.state = "Success", !.target = None]
    /\ HostRefreshSucceeded(Get(co.target), heap)
    /\ published' = heap[Get(co.target)]
    /\ UNCHANGED <<now, ticks, clientvars, faults_left, server, cycles_left, gd,
                   entities, svc, demo>>

\* Between two cycles the account may change, and the readings of the
\* one-meter account (epoch 1 holds its later readings).
ServerStates ==
    { s \in [meters : Worlds, epoch : {0, 1}, tokens : {{"tokA"}}] :
        s.epoch = 1 => (Len(s.meters) = 1 /\ s.meters[1].ve = MeterHome) }

ServerChanges ==
    /\ ~Fetching
    /\ req[Fetcher].pc = "idle"
    /\ cycles_left > 0
    /\ \E srv \in ServerStates : srv # server /\ server' = srv
    /\ UNCHANGED <<now, ticks, clientvars, faults_left, cycles_left, gd, co,
                   heap, data, last_update_success, published,
                   entities, svc, demo>>

\* _meter_data of a sensor (sensor/electricity.py 129-133):
\* coordinator.data.get("meters", {}).get(meter_id, {}), Val(None) for {}.
\* While the coordinator has no data yet, coordinator.data is None and
\* the .get raises AttributeError.
_meter_data(meter_id) ==
    IF Snapshot = None THEN Exc("AttributeError")
    ELSE Val(DictGet(Get(Snapshot).meters, meter_id))

\* self._meter_data.get(key, False) for a flag of the meter record.
MeterFlag(meter_id, key) ==
    LET md == _meter_data(meter_id)
    IN IF md.exc # "" THEN md
       ELSE IF md.v = None THEN Val(FALSE) ELSE Val(Get(md.v)[key])

\* HildebrandGlowElectricitySensor.available (sensor/electricity.py 135-140):
\* the record of the meter is read only after a successful last update.
electricity_available(meter_id) ==
    IF ~last_update_success THEN Val(FALSE)
    ELSE MeterFlag(meter_id, "has_electricity")

\* HildebrandGlowGasSensor.available (sensor/gas.py 124-129)
gas_available(meter_id) ==
    IF ~last_update_success THEN Val(FALSE)
    ELSE MeterFlag(meter_id, "has_gas")

\* HildebrandGlowTariffSensor.available (sensor/tariff.py 115-122);
\* energy_type is "electricity" or "gas".
tariff_available(energy_type, meter_id) ==
    IF ~last_update_success THEN Val(FALSE)
    ELSE MeterFlag(meter_id, IF energy_type = "electricity"
                             THEN "has_electricity" ELSE "has_gas")

\* HildebrandGlowDiagnosticSensor.available (sensor/diagnostic.py 62-65)
glow_diagnostic_available == last_update_success

\* The entities of the demo integration read the flag of their own
\* coordinator, which the host keeps as it keeps the Glow coordinator's:
\* the flag is the argument.
\* IntegrationBlueprintAirQualitySensor.available (air_quality.py 109-112)
air_quality_available(coordinator_last_update_success) ==
    coordinator_last_update_success

\* IntegrationBlueprintDiagnosticSensor.available (diagnostic.py 74-78):
\* "Diagnostic entities should always be available to show status".
demo_diagnostic_available(coordinator_last_update_success) == TRUE

----------------------------------------------------------------------------
(* The sensor platform: sensor/__init__.py, electricity.py, gas.py, tariff.py *)

\* A string with underscores is the sequence of the parts between them:
\* f"{a}_{b}" is the concatenation of the parts of a and of b.
\* The keys of the entity descriptions (electricity.py 24-103, gas.py 24-87).
ELECTRICITY_DESCRIPTIONS ==
    << <<"electricity", "power", "current">>,
       <<"electricity", "usage", "today">>,
       <<"electricity", "usage", "week">>,
       <<"electricity", "usage", "month">>,
       <<"electricity", "cost", "today">>,
       <<"electricity", "cost", "week">>,
       <<"electricity", "cost", "month">> >>

GAS_DESCRIPTIONS ==
    << <<"gas", "usage", "today">>,
       <<"gas", "usage", "week">>,
       <<"gas", "usage", "month">>,
       <<"gas", "cost", "today">>,
       <<"gas", "cost", "week">>,
       <<"gas", "cost", "month">> >>

\* tariff.py 25-78
TARIFF_DESCRIPTIONS ==
    << [key |-> <<"electricity", "rate">>, energy_type |-> "electricity"],
       [key |-> <<"electricity", "standing", "charge">>, energy_type |-> "electricity"],
       [key |-> <<"gas", "rate">>, energy_type |-> "gas"],
       [key |-> <<"gas", "standing", "charge">>, energy_type |-> "gas"] >>

\* The parts of the meter ids of the model.
Parts(meter_id) ==
    CASE meter_id = "m1_gas" -> <<"m1", "gas">>
      [] meter_id = "m1_electricity" -> <<"m1", "electricity">>
      [] OTHER -> <<meter_id>>

\* coordinator.config_entry.entry_id
EntryId == <<"entry1">>

\* The unique id a sensor gives itself (electricity.py 125, gas.py 115,
\* tariff.py 106): f"{entry_id}_{meter_id}_{entity_description.key}"
AltUniqueIdWithoutMeter(entry_id, meter_id, key) == entry_id \o key

unique_id(entry_id, meter_id, key) == entry_id \o Parts(meter_id) \o key

\* A sensor after its __init__.
Sensor(class, meter_id, key) ==
    [class |-> class, meter_id |-> meter_id, key |-> key,
     unique_id |-> unique_id(EntryId, meter_id, key)]

\* The tariff descriptions of an energy type, in their order.
TariffKeys(energy_type) ==
    LET ds == SelectSeq(TARIFF_DESCRIPTIONS, LAMBDA t : t.energy_type = energy_type)
    IN [i \in 1..Len(ds) |-> ds[i].key]

\* One iteration of `for meter_id, meter_data in meters.items()`
\* (sensor/__init__.py 33-87): the sensors it appends.
meter_entities(meter_id, meter_data) ==
    (IF meter_data.has_electricity
     THEN [i \in 1..Len(ELECTRICITY_DESCRIPTIONS) |->
              Sensor("electricity", meter_id, ELECTRICITY_DESCRIPTIONS[i])]
          \o [i \in 1..Len(TariffKeys("electricity")) |->
                 Sensor("tariff", meter_id, TariffKeys("electricity")[i])]
     ELSE <<>>)
    \o
    (IF meter_data.has_gas
     THEN [i \in 1..Len(GAS_DESCRIPTIONS) |->
              Sensor("gas", meter_id, GAS_DESCRIPTIONS[i])]
          \o [i \in 1..Len(TariffKeys("gas")) |->
                 Sensor("tariff", meter_id, TariffKeys("gas")[i])]
     ELSE <<>>)

\* The list `entities` after the loop over the meters from index i of
\* their order on.
RECURSIVE setup_entities(_, _, _)
setup_entities(meters, order, i) ==
    IF i > Len(order) THEN <<>>
    ELSE meter_entities(order[i], meters[order[i]])
         \o setup_entities(meters, order, i + 1)

\* async_setup_entry of the sensor platform (sensor/__init__.py 20-89),
\* which the host calls once, after the first refresh has succeeded.  The
\* dict of meters keeps the order in which _transform_data inserted them,
\* that of the raw result.
async_setup_entry ==
    /\ co.state = "Success"
    /\ data # None
    /\ entities = None
    /\ entities' = Some(setup_entities(Get(Snapshot).meters, co.raw.order, 1))
    /\ UNCHANGED <<now, ticks, clientvars, faults_left, server, cycles_left, gd,
                   co, heap, data, last_update_success, published, svc, demo>>

\* entity_description.data_key of a sensor: the string of its key (the two
\* are equal in every description).
RECURSIVE JoinParts(_)
JoinParts(parts) ==
    IF Len(parts) = 1 THEN parts[1]
    ELSE parts[1] \o "_" \o JoinParts(Tail(parts))

data_key(sensor) == JoinParts(sensor.key)

\* self._meter_data[self.entity_description.data_key], which raises for a
\* meter or a key that is not there.
AltNativeValueSubscript(sensor) ==
    LET md == _meter_data(sensor.meter_id)
    IN IF md.exc # "" THEN md
       ELSE IF md.v = None \/ data_key(sensor) \notin DOMAIN Get(md.v)
       THEN Exc("KeyError")
       ELSE Val(Get(md.v)[data_key(sensor)])

\* native_value of a sensor (electricity.py 142-145, gas.py 131-134,
\* tariff.py 124-127): self._meter_data.get(data_key), an option.
native_value(sensor) ==
    LET md == _meter_data(sensor.meter_id)
    IN IF md.exc # "" THEN md
       ELSE IF md.v = None \/ data_key(sensor) \notin DOMAIN Get(md.v)
       THEN Val(None)
       ELSE Val(Get(md.v)[data_key(sensor)])

\* available of a sensor, by its class.
sensor_available(sensor) ==
    CASE sensor.class = "electricity" -> electricity_available(sensor.meter_id)
      [] sensor.class = "gas" -> gas_available(sensor.meter_id)
      [] OTHER -> tariff_available(sensor.key[1], sensor.meter_id)

----------------------------------------------------------------------------
(* The service actions of the blueprint integration:
   ha_integration_domain/service_actions *)

\* How many config entries the blueprint integration has, and how many
\* service calls are made in one behaviour.
MaxEntries == 2
MaxServiceCalls == 2

\* What a refresh may leave in coordinator.data: a JSON object of four keys
\* or of none, or a JSON list; `size` is len(str(data)).
DemoBodies ==
    { [isdict |-> TRUE, len |-> 4, size |-> 60],
      [isdict |-> TRUE, len |-> 0, size |-> 2],
      [isdict |-> FALSE, len |-> 2, size |-> 6] }

\* The exceptions that may reach async_handle_reload_data
\* (example_service.py 87), by the name of the class and the message,
\* which is what str(exception) gives: the message is the exception's own
\* and does not follow from its class.
RaisedExceptions ==
    { [exc |-> "UpdateFailed", msg |-> "update_failed"],
      [exc |-> "UpdateFailed", msg |-> ""],
      [exc |-> "ConfigEntryAuthFailed", msg |-> "authentication_failed"],
      [exc |-> "ConfigEntryNotReady", msg |-> "not ready"] }

\* coordinator.data after the first refresh: the JSON object of the API.
FirstBody == [isdict |-> TRUE, len |-> 4, size |-> 60]

\* How `await coordinator.async_request_refresh()` may end: the refresh
\* succeeded ("ok"), the host caught the exception of _async_update_data
\* ("failed"), or one of the exceptions of example_service.py 87 reached the
\* caller ("raised").
RefreshOutcomes ==
    { [kind |-> "ok", body |-> Some(b), exc |-> "", msg |-> ""] : b \in DemoBodies }
    \cup { [kind |-> "failed", body |-> None, exc |-> "", msg |-> ""] }
    \cup { [kind |-> "raised", body |-> None, exc |-> e.exc, msg |-> e.msg] :
             e \in RaisedExceptions }

\* The coordinator of a config entry; `refreshes` counts the refreshes
\* requested of it.
DemoCoordinator(body) ==
    [data |-> Some(body), last_update_success |-> TRUE, refreshes |-> 0]

\* coordinator.async_request_refresh() is called (example_service.py 86).
request_refresh(c) == [c EXCEPT !.refreshes = @ + 1]

\* The refresh that was awaited has ended with the outcome o.
refresh_ends(c, o) ==
    [c EXCEPT !.data = IF o.kind = "ok" THEN o.body ELSE @,
              !.last_update_success = (o.kind = "ok")]

\* dt_util.now(): the wall clock, seconds and microseconds.
ClockNow == [s |-> now, us |-> svc.us]

\* The readings of the clock after the first, in their order: 1.235 ms
\* and 1.000005 s later.
ClockReadings == << [s |-> 0, us |-> 1235], [s |-> 1, us |-> 5] >>

\* The decimal digits of n, in `width` places.
DigitChars == <<"0", "1", "2", "3", "4", "5", "6", "7", "8", "9">>

RECURSIVE Digits(_, _)
Digits(n, width) ==
    IF width = 0 THEN ""
    ELSE Digits(n \div 10, width - 1) \o DigitChars[(n % 10) + 1]

\* datetime.isoformat() of the clock reading t, the clock reading 0 being
\* 2025-01-01T00:00:00+00:00 in the host's time zone (UTC): the
\* microseconds are left out when they are 0.
isoformat(t) ==
    "2025-01-" \o Digits(1 + t.s \div 86400, 2)
    \o "T" \o Digits((t.s % 86400) \div 3600, 2)
    \o ":" \o Digits((t.s % 3600) \div 60, 2)
    \o ":" \o Digits(t.s % 60, 2)
    \o (IF t.us = 0 THEN "" ELSE "." \o Digits(t.us, 6))
    \o "+00:00"

\* The microseconds of the timedelta end - start, as a natural number of
\* limbs (they do not fit the integers of the model checker).
DeltaMicroseconds(start, end) ==
    LET ds == IF end.us >= start.us THEN end.s - start.s
              ELSE end.s - start.s - 1
        dus == IF end.us >= start.us THEN end.us - start.us
               ELSE 1000000 + end.us - start.us
    IN BigAdd(BigMulSmall(BigMulSmall(BigFromInt(ds), 1000), 1000),
              BigFromInt(dus))

\* timedelta.total_seconds(): the double nearest to microseconds / 10^6
\* (a true division of two integers; 10^6 = 2^6 * 5^6).
total_seconds(micros) ==
    Bind(BigDivSmall(BigShiftLeft(micros, 2 * FracBits - 6), 15625),
         LAMBDA qr : [neg |-> FALSE,
                      mag |-> BigShiftRight(RoundSig(qr.q, qr.r # 0), FracBits)])

\* a * m of a double a >= 0 and the double of a natural m <= 10^5
FMulSmall(a, m) ==
    [neg |-> FALSE, mag |-> RoundSig(BigMulSmall(a.mag, m), FALSE)]

\* round((end - start).total_seconds() * 1000, 2) (example_service.py
\* 97-98, 107), as the natural k with the result the double nearest to
\* k / 100.
duration_ms(start, end) ==
    FRound(FMulSmall(total_seconds(DeltaMicroseconds(start, end)), 1000), 2)

\* What async_handle_reload_data returns (example_service.py 85-118) for
\* the coordinator c after the refresh that ended with o at the clock
\* reading `end`, `duration` being duration_ms of its start and `end`.
reload_response(c, o, duration, end) ==
    IF o.kind = "raised"
    THEN [status |-> "error", timestamp |-> isoformat(end), error |-> o.msg,
          error_type |-> o.exc]
    ELSE [status |-> "success", timestamp |-> isoformat(end),
          duration_ms |-> duration,
          record_count |-> IF c.data # None /\ Get(c.data).isdict
                           THEN Get(c.data).len ELSE 0,
          data_size_bytes |-> IF c.data = None \/ Get(c.data).len = 0
                              THEN 0 ELSE Get(c.data).size,
          last_update_success |-> c.last_update_success]

\* What the registered handler of reload_data returns to its caller after
\* the calls of async_handle_reload_data returned `handled`
\* (service_actions/__init__.py 47-57: there is no return statement).
handle_reload_data_returns(handled) == None

\* An activation of the handler of reload_data.
\*   id      : the number of its call
\*   pc      : "await" (async_request_refresh of entry i is awaited) or
\*             "done"
\*   i       : the index of the entry of the loop (line 56)
\*   start   : start_time of async_handle_reload_data for that entry
\*   handled : what async_handle_reload_data returned for the entries before
ReloadRun(id) ==
    [id |-> id, pc |-> "await", i |-> 1, start |-> ClockNow, handled |-> <<>>]

DoneRun(id) ==
    [id |-> id, pc |-> "done", i |-> 0, start |-> [s |-> 0, us |-> 0],
     handled |-> <<>>]

\* The registered handler of reload_data is called
\* (service_actions/__init__.py 47-57): without config entries it returns;
\* otherwise it calls async_handle_reload_data for the first entry, which
\* reads the clock and awaits the refresh it requests
\* (example_service.py 80-86).
handle_reload_data ==
    /\ svc.calls < MaxServiceCalls
    /\ svc' = IF svc.entries = <<>>
              THEN [svc EXCEPT !.calls = @ + 1,
                               !.last = [id |-> svc.calls + 1,
                                         service |-> "reload_data",
                                         returned |-> handle_reload_data_returns(<<>>),
                                         handled |-> <<>>]]
              ELSE [svc EXCEPT !.calls = @ + 1,
                               !.entries[1] = request_refresh(@),
                               !.runs = Append(@, ReloadRun(svc.calls + 1))]
    /\ UNCHANGED <<now, ticks, clientvars, faults_left, server, cycles_left, gd,
                   co, heap, data, last_update_success, published, entities,
                   demo>>

\* The refresh an activation awaits ends: async_handle_reload_data builds
\* its response (example_service.py 87-118) and the loop of the handler
\* goes on to the next entry, up to the await of its refresh, or the
\* handler returns.
async_handle_reload_data(k) ==
    /\ svc.runs[k].pc = "await"
    /\ \E duration \in {duration_ms(svc.runs[k].start, ClockNow)} :
       \E o \in RefreshOutcomes :
          LET r == svc.runs[k]
              c == refresh_ends(svc.entries[r.i], o)
              handled == Append(r.handled,
                                reload_response(c, o, duration, ClockNow))
          IN svc' =
                IF r.i < Len(svc.entries)
                THEN [svc EXCEPT
                        !.entries = [j \in 1..Len(svc.entries) |->
                                        CASE j = r.i -> c
                                          [] j = r.i + 1 -> request_refresh(@[j])
                                          [] OTHER -> @[j]],
                        !.runs[k] = [r EXCEPT !.i = @ + 1, !.start = ClockNow,
                                              !.handled = handled]]
                ELSE [svc EXCEPT
                        !.entries[r.i] = c,
                        !.runs[k] = DoneRun(r.id),
                        !.last = [id |-> r.id,
                                  service |-> "reload_data",
                                  returned |-> handle_reload_data_returns(handled),
                                  handled |-> handled]]
    /\ UNCHANGED <<now, ticks, clientvars, faults_left, server, cycles_left, gd,
                   co, heap, data, last_update_success, published, entities,
                   demo>>

\* The clock advances to a later reading.
ClockAdvances ==
    /\ \E n \in 1..Len(ClockReadings) :
          /\ \/ ClockReadings[n].s > now
             \/ ClockReadings[n].s = now /\ ClockReadings[n].us > svc.us
          /\ now' = ClockReadings[n].s
          /\ svc' = [svc EXCEPT !.us = ClockReadings[n].us]
    /\ UNCHANGED <<ticks, clientvars, faults_left, server, cycles_left, gd,
                   co, heap, data, last_update_success, published, entities,
                   demo>>

\* The registered handler of example_action (service_actions/__init__.py
\* 35-45, example_service.py 17-57): it logs.
handle_example_action ==
    /\ svc.calls < MaxServiceCalls
    /\ svc' = [svc EXCEPT !.calls = @ + 1,
                          !.last = [id |-> svc.calls + 1,
                                    service |-> "example_action",
                                    returned |-> None, handled |-> <<>>]]
    /\ UNCHANGED <<now, ticks, clientvars, faults_left, server, cycles_left, gd,
                   co, heap, data, last_update_success, published, entities,
                   demo>>

----------------------------------------------------------------------------
(* The entities of the blueprint integration: ha_integration_domain/fan,
   select, button, sensor/diagnostic.py *)

\* [speed.value for speed in FanSpeed] (select/fan_speed.py 16-22)
FanSpeeds == {"low", "medium", "high", "auto"}

\* math.ceil(percentage_to_ranged_value(SPEED_RANGE, percentage)) for the
\* range (1, 3): the ceiling of 3 * percentage / 100
\* (fan/air_purifier_fan.py 79).
speed_value(percentage) == (3 * percentage + 99) \div 100

\* speed_map.get(speed_value, "medium") (fan/air_purifier_fan.py 82-83)
speed_name(percentage) ==
    CASE speed_value(percentage) = 1 -> "low"
      [] speed_value(percentage) = 2 -> "medium"
      [] speed_value(percentage) = 3 -> "high"
      [] OTHER -> "medium"

\* IntegrationBlueprintFan.percentage (fan/air_purifier_fan.py 60-65)
fan_percentage == IF ~demo.fan.is_on THEN 0 ELSE demo.fan.percentage

\* IntegrationBlueprintFanSpeedSelect.current_option
\* (select/fan_speed.py 49-61)
current_option ==
    LET demo_speed == demo.data.demo_fan_speed
    IN IF demo_speed # None /\ Get(demo_speed) \in FanSpeeds
       THEN Get(demo_speed)
       ELSE demo.select.current_option

\* IntegrationBlueprintDiagnosticSensor.native_value for the key
\* "filter_life" (sensor/diagnostic.py 53-66), an option.
filter_life_native_value ==
    IF ~demo.last_update_success THEN None
    ELSE IF demo.data.demo_filter_reset THEN Some(100)
    ELSE LET user_id == IF demo.data.userId = None THEN 0 ELSE Get(demo.data.userId)
         IN Some(100 - (user_id % 100))

\* The percentages and options the host may pass.
Percentages == {0, 1, 33, 34, 66, 67, 100}
Options == FanSpeeds \cup {"turbo"}

\* IntegrationBlueprintFan.async_turn_off (fan/air_purifier_fan.py 118-122)
\* on the entities `d`.
turn_off(d) == [d EXCEPT !.fan = [is_on |-> FALSE, percentage |-> 0]]

\* async_turn_on without a percentage (lines 114-116).
turn_on(d) == [d EXCEPT !.fan.is_on = TRUE]

\* async_set_percentage up to its await (lines 67-97); for 0 it is
\* async_turn_off.
set_percentage(d, percentage) ==
    IF percentage = 0
    THEN turn_off(d)
    ELSE [d EXCEPT !.fan = [is_on |-> TRUE, percentage |-> percentage],
                   !.data.demo_fan_speed = Some(speed_name(percentage)),
                   !.pending = TRUE]

\* IntegrationBlueprintFan.async_set_percentage is called.
fan_async_set_percentage ==
    /\ \E percentage \in Percentages :
          demo' = [set_percentage(demo, percentage) EXCEPT
                      !.last = [op |-> "fan", arg |-> Some(percentage),
                                refresh |-> ""]]
    /\ UNCHANGED <<now, ticks, clientvars, faults_left, server, cycles_left, gd,
                   co, heap, data, last_update_success, published, entities, svc>>

\* IntegrationBlueprintFan.async_turn_on is called (lines 105-116), with a
\* percentage or without.
fan_async_turn_on ==
    /\ \E percentage \in {None} \cup { Some(p) : p \in Percentages } :
          demo' = [(IF percentage # None
                    THEN set_percentage(demo, Get(percentage))
                    ELSE turn_on(demo)) EXCEPT
                      !.last = [op |-> "turn_on", arg |-> percentage,
                                refresh |-> ""]]
    /\ UNCHANGED <<now, ticks, clientvars, faults_left, server, cycles_left, gd,
                   co, heap, data, last_update_success, published, entities, svc>>

\* IntegrationBlueprintFan.async_turn_off is called.
fan_async_turn_off ==
    /\ demo' = [turn_off(demo) EXCEPT
                   !.last = [op |-> "turn_off", arg |-> None, refresh |-> ""]]
    /\ UNCHANGED <<now, ticks, clientvars, faults_left, server, cycles_left, gd,
                   co, heap, data, last_update_success, published, entities, svc>>

\* IntegrationBlueprintFanSpeedSelect.async_select_option up to its await
\* (select/fan_speed.py 75-96).
select_async_select_option ==
    /\ \E option \in Options :
          demo' =
             IF option \notin FanSpeeds
             THEN [demo EXCEPT !.last = [op |-> "select", arg |-> Some(option),
                                         refresh |-> ""]]
             ELSE [demo EXCEPT !.data.demo_fan_speed = Some(option),
                               !.select.current_option = option,
                               !.pending = TRUE,
                               !.last = [op |-> "select", arg |-> Some(option),
                                         refresh |-> ""]]
    /\ UNCHANGED <<now, ticks, clientvars, faults_left, server, cycles_left, gd,
                   co, heap, data, last_update_success, published, entities, svc>>

\* IntegrationBlueprintButton.async_press up to its await
\* (button/reset_filter.py 40-61).
button_async_press ==
    /\ demo' = [demo EXCEPT !.data.demo_filter_reset = TRUE,
                            !.pending = TRUE,
                            !.last = [op |-> "press", arg |-> None, refresh |-> ""]]
    /\ UNCHANGED <<now, ticks, clientvars, faults_left, server, cycles_left, gd,
                   co, heap, data, last_update_success, published, entities, svc>>

\* The userId of the JSON object the API returns (an object without userId
\* is read as 0).
UserIds == {Some(1), Some(100), None}

\* A refresh of the coordinator, requested by an entity or started by the
\* host's timer: _async_update_data (coordinator/base.py 102-125) returns
\* the JSON object of the API, which becomes coordinator.data, or raises and
\* coordinator.data stays.
demo_refresh ==
    /\ \E ok \in BOOLEAN : \E u \in UserIds :
          demo' = [demo EXCEPT !.data = IF ok THEN DemoData(u) ELSE @,
                               !.last_update_success = ok,
                               !.pending = FALSE,
                               !.last.refresh = IF ok THEN "ok" ELSE "failed"]
    /\ UNCHANGED <<now, ticks, clientvars, faults_left, server, cycles_left, gd,
                   co, heap, data, last_update_success, published, entities, svc>>

----------------------------------------------------------------------------
(* Specifications *)

InitCommon ==
    /\ now = 0
    /\ ticks = 0
    /\ token = None
    /\ token_expiry = None
    /\ obtained_at = None
    /\ auth_log = NoAuthLog
    /\ req = IdleReqs
    /\ gd = IdleGd
    /\ co = IdleCo
    /\ heap = [id \in ObjIds |-> None]
    /\ data = None
    /\ last_update_success = TRUE
    /\ published = None
    /\ entities = None
    /\ svc = IdleSvc
    /\ demo = IdleDemo

\* The client alone: two callers whose requests overlap at will, a budget
\* of faulty calls.
InitClient ==
    /\ InitCommon
    /\ server = [meters |-> <<>>, epoch |-> 0, tokens |-> Tokens]
    /\ faults_left = MaxFaults
    /\ cycles_left = 0

NextClient ==
    \/ Tick
    \/ \E c \in Callers :
          \/ (c = CatchupCaller /\ async_catchup(c, "r1"))
          \/ (c # CatchupCaller /\ async_get_current(c, "r2"))
          \/ EnsureAuthenticated(c)
          \/ EnsureAuthenticatedReturns(c)
          \/ SendRequest(c)
          \/ Reauthenticate(c)
          \/ ReauthenticateOuterTimeout(c)
          \/ RetryRequest(c)
          \/ CatchupReturns(c)

SpecClient == InitClient /\ [][NextClient]_vars

\* The client alone with a budget of faulty calls and one clock step, and
\* with callers that call async_authenticate themselves.  With one clock
\* step no request lasts until the deadline of its 30 s timeout while it
\* re-authenticates, so ReauthenticateOuterTimeout has no place here; it
\* leaves the client as a re-authentication that timed out by itself does
\* (_token = None, CommunicationError).  Every await of a
\* call ends: the session's requests run under asyncio.timeout and the event
\* loop runs every task that is ready, so each step of a started request is
\* eventually taken, however often the step of another task comes first,
\* and a call that is done returns to its caller.
InitClientLive ==
    /\ now = 0
    /\ ticks = MaxTicks - 1
    /\ token = None
    /\ token_expiry = None
    /\ obtained_at = None
    /\ auth_log = NoAuthLog
    /\ req = IdleReqs
    /\ gd = IdleGd
    /\ co = IdleCo
    /\ heap = [id \in ObjIds |-> None]
    /\ data = None
    /\ last_update_success = TRUE
    /\ published = None
    /\ entities = None
    /\ svc = IdleSvc
    /\ demo = IdleDemo
    /\ server = [meters |-> <<>>, epoch |-> 0, tokens |-> Tokens]
    /\ faults_left = MaxFaults
    /\ cycles_left = 0

RequestStep(c) ==
    \/ EnsureAuthenticated(c)
    \/ EnsureAuthenticatedReturns(c)
    \/ SendRequest(c)
    \/ Reauthenticate(c)
    \/ RetryRequest(c)

NextClientLive ==
    \/ Tick
    \/ \E c \in Callers :
          \/ (c = CatchupCaller /\ async_catchup(c, "r1"))
          \/ (c # CatchupCaller /\ async_get_current(c, "r2"))
          \/ RequestStep(c)
          \/ CatchupReturns(c)
          \/ direct_authenticate(c)
          \/ DirectAuthenticateReturns(c)

SpecClientLive ==
    /\ InitClientLive
    /\ [][NextClientLive]_vars
    /\ \A c \in Callers :
          /\ SF_vars(RequestStep(c))
          /\ WF_vars(CatchupReturns(c))

\* The fetch cycles of the coordinator.
Init ==
    /\ InitCommon
    /\ server \in ServerStates
    /\ faults_left = MaxFaults
    /\ cycles_left = MaxCycles

Next ==
    \/ UpdateBegin
    \/ EnsureAuthenticated(Fetcher)
    \/ EnsureAuthenticatedReturns(Fetcher)
    \/ SendRequest(Fetcher)
    \/ Reauthenticate(Fetcher)
    \/ RetryRequest(Fetcher)
    \/ GetDataResume
    \/ UpdateRaises
    \/ TransformBegin
    \/ TransformMeter
    \/ UpdateReturns
    \/ ServerChanges

Spec == Init /\ [][Next]_vars

\* One call of async_get_data, with more faults.
InitGetData ==
    /\ InitCommon
    /\ server \in ServerStates
    /\ faults_left = MaxFaultsGetData
    /\ cycles_left = 1

SpecGetData == InitGetData /\ [][Next]_vars

\* _transform_data on what async_get_data may have returned for an account
\* of one meter: the inputs are drawn from the sets below.

\* The longest readings series and the longest resource list drawn.
MaxSeriesLen == 3
MaxResources == 2

\* Values of a consumption series (kWh): 0.0005, 0.001, 1.2345.
ReadingValues == {50, 100, 123450}

\* The entries of a series: [timestamp, value], [timestamp, null] and the
\* too-short [timestamp].
SeriesItems ==
    { Pair(1, Some(v)) : v \in ReadingValues } \cup { Pair(2, None), ShortItem(3) }

AllSeries == UNION { [1..n -> SeriesItems] : n \in 0..MaxSeriesLen }

ReadingsBody(series) == [shape |-> "object", data |-> Some(series)]

\* An object without "data"
BodyWithoutData == [shape |-> "object", data |-> None]

\* The reading totals of a meter record, by the key of the series.
ReadingKeys ==
    << <<CLASSIFIER_ELECTRICITY_COST, "today">>,
       <<CLASSIFIER_ELECTRICITY_COST, "week">>,
       <<CLASSIFIER_ELECTRICITY_COST, "month">>,
       <<CLASSIFIER_GAS_COST, "today">>,
       <<CLASSIFIER_GAS_COST, "week">>,
       <<CLASSIFIER_GAS_COST, "month">>,
       <<CLASSIFIER_ELECTRICITY_CONSUMPTION, "today">>,
       <<CLASSIFIER_ELECTRICITY_CONSUMPTION, "week">>,
       <<CLASSIFIER_ELECTRICITY_CONSUMPTION, "month">>,
       <<CLASSIFIER_GAS_CONSUMPTION, "today">>,
       <<CLASSIFIER_GAS_CONSUMPTION, "week">>,
       <<CLASSIFIER_GAS_CONSUMPTION, "month">> >>

\* Wire values of a total (pence for a cost): 250, 2.5, 12.5, 4567.
WireTotals == {25000000, 250000, 1250000, 456700000}

\* Each key holds its own value: a hundred more per key.
KeyStep == 100 * Unit

\* The readings of a meter whose every total is a series of one pair, the
\* first key holding w.
ReadingsOfTotal(w) ==
    [k \in { ReadingKeys[i] : i \in 1..Len(ReadingKeys) } |->
        LET i == CHOOSE x \in 1..Len(ReadingKeys) : ReadingKeys[x] = k
        IN ReadingsBody(<< Pair(1, Some(w + (i - 1) * KeyStep)) >>)]

\* Tariff histories, most recent first: rates 15.2345 and 15.23455 pence,
\* standing charges 4567 and 2.5 pence; a null rate and charge; an entry
\* without currentRates; an empty history.
Rates(rate, charge) ==
    [currentRates |-> Some([rate |-> rate, standingCharge |-> charge])]

TariffHistories ==
    { << Rates(Some(r), Some(c)), Rates(Some(1400000), Some(400000000)) >> :
         r \in {1523450, 1523455}, c \in {456700000, 250000} }
    \cup { << Rates(None, None) >>, << [currentRates |-> None] >>, <<>> }

\* The gas tariff of an account with the electricity history h: the same
\* with a penny more of rate and a hundred pence more of standing charge.
GasHistory(h) ==
    [i \in 1..Len(h) |->
        IF h[i].currentRates = None THEN h[i]
        ELSE LET cr == Get(h[i].currentRates)
             IN Rates(IF cr.rate = None THEN None ELSE Some(Get(cr.rate) + Unit),
                      IF cr.standingCharge = None THEN None
                      ELSE Some(Get(cr.standingCharge) + KeyStep))]

TariffsOf(h) ==
    DictPut(DictPut(EmptyDict, CLASSIFIER_ELECTRICITY_CONSUMPTION,
                    [shape |-> "object", data |-> Some(h)]),
            CLASSIFIER_GAS_CONSUMPTION,
            [shape |-> "object", data |-> Some(GasHistory(h))])

\* A classifier that has "electricity" in it, not at its start, and one whose
\* first segment is longer than "gas" and starts with it.
ClassifierExport == <<"export", "electricity">>
ClassifierGasoline == <<"gasoline", "consumption">>

ResourceKinds ==
    { Res(Some("r1"), c) :
        c \in { Some(CLASSIFIER_ELECTRICITY_CONSUMPTION), Some(CLASSIFIER_ELECTRICITY_COST),
                Some(CLASSIFIER_GAS_CONSUMPTION), Some(CLASSIFIER_GAS_COST),
                Some(ClassifierOther), Some(ClassifierExport),
                Some(ClassifierGasoline), Null, None } }

AllResourceLists == UNION { [1..n -> ResourceKinds] : n \in 0..MaxResources }

ElectricityOnly == << Res(Some("r1"), Some(CLASSIFIER_ELECTRICITY_CONSUMPTION)) >>

BothEnergies ==
    << Res(Some("r1"), Some(CLASSIFIER_ELECTRICITY_CONSUMPTION)),
       Res(Some("r2"), Some(CLASSIFIER_ELECTRICITY_COST)),
       Res(Some("r3"), Some(CLASSIFIER_GAS_CONSUMPTION)),
       Res(Some("r4"), Some(CLASSIFIER_GAS_COST)) >>

RawMeter(resources, readings, tariffs) ==
    [NoMeterData EXCEPT !.virtual_entity = MeterHome, !.resources = resources,
                        !.readings = readings, !.tariffs = tariffs]

\* What async_get_data returns for the one-meter account: a meter whose
\* sub-fetches but that of today's consumption failed; a meter with all
\* its totals and tariffs; a meter with none of them.
RawMeters ==
    { RawMeter(ElectricityOnly,
               DictPut(EmptyDict, <<CLASSIFIER_ELECTRICITY_CONSUMPTION, "today">>, b),
               EmptyDict) :
         b \in { ReadingsBody(sr) : sr \in AllSeries }
               \cup {BodyWithoutData, [shape |-> "empty_object", data |-> None]}
               \cup MalformedReadings }
    \cup { RawMeter(ElectricityOnly, EmptyDict,
                    DictPut(EmptyDict, CLASSIFIER_ELECTRICITY_CONSUMPTION, b)) :
              b \in MalformedTariffs }
    \cup { RawMeter(BothEnergies, ReadingsOfTotal(w), TariffsOf(h)) :
              w \in WireTotals, h \in TariffHistories }
    \cup { RawMeter(rs, EmptyDict, EmptyDict) : rs \in AllResourceLists }
    \cup { [RawMeter(ElectricityOnly, EmptyDict, EmptyDict)
               EXCEPT !.virtual_entity.name = n] : n \in {None, Null} }

RawResults ==
    { [virtual_entities |-> <<MeterHome>>,
       meters |-> DictPut(EmptyDict, "m1", md),
       order |-> <<"m1">>] : md \in RawMeters }

\* async_get_data has just returned one of them.
InitTransform ==
    /\ now = 0
    /\ ticks = 0
    /\ token = Some("tokA")
    /\ token_expiry = Some(TOKEN_LIFETIME_SECONDS)
    /\ obtained_at = Some(0)
    /\ auth_log = NoAuthLog
    /\ req = IdleReqs
    /\ server = [meters |-> <<>>, epoch |-> 0, tokens |-> {"tokA"}]
    /\ faults_left = 0
    /\ cycles_left = 0
    /\ \E r \in RawResults : gd = [IdleGd EXCEPT !.pc = "done", !.result = r]
    /\ co = [IdleCo EXCEPT !.state = "Fetching"]
    /\ heap = [id \in ObjIds |-> None]
    /\ data = None
    /\ last_update_success = TRUE
    /\ published = None
    /\ entities = None
    /\ svc = IdleSvc
    /\ demo = IdleDemo

NextTransform ==
    \/ TransformBegin
    \/ TransformMeter
    \/ UpdateReturns

SpecTransform == InitTransform /\ [][NextTransform]_vars

\* The platform setup on the first snapshot of an account of up to
\* MaxMeters meters, whose ids may end in the name of an energy.
MaxMeters == 2

SetupMeterIds == {"m1", "m1_gas", "m1_electricity"}

GasOnly == << Res(Some("r3"), Some(CLASSIFIER_GAS_CONSUMPTION)) >>

SetupResourceLists ==
    { <<>>, ElectricityOnly, GasOnly, BothEnergies,
      << Res(Some("r5"), Some(ClassifierOther)) >> }

\* The orders of up to MaxMeters distinct meters.
SetupOrders ==
    { o \in UNION { [1..n -> SetupMeterIds] : n \in 0..MaxMeters } :
        \A i, j \in 1..Len(o) : i # j => o[i] # o[j] }

SetupVe(id) == [veId |-> Some(id), name |-> None, postalCode |-> None]

SetupResults ==
    UNION { { [virtual_entities |-> [i \in 1..Len(o) |-> SetupVe(o[i])],
               meters |-> [id \in { o[i] : i \in 1..Len(o) } |->
                             [NoMeterData EXCEPT !.virtual_entity = SetupVe(id),
                                                 !.resources = rl[id]]],
               order |-> o] :
              rl \in [{ o[i] : i \in 1..Len(o) } -> SetupResourceLists] } :
            o \in SetupOrders }

\* async_get_data of the first refresh has just returned one of them.
InitSetup ==
    /\ now = 0
    /\ ticks = 0
    /\ token = Some("tokA")
    /\ token_expiry = Some(TOKEN_LIFETIME_SECONDS)
    /\ obtained_at = Some(0)
    /\ auth_log = NoAuthLog
    /\ req = IdleReqs
    /\ server = [meters |-> <<>>, epoch |-> 0, tokens |-> {"tokA"}]
    /\ faults_left = 0
    /\ cycles_left = 0
    /\ \E r \in SetupResults : gd = [IdleGd EXCEPT !.pc = "done", !.result = r]
    /\ co = [IdleCo EXCEPT !.state = "Fetching"]
    /\ heap = [id \in ObjIds |-> None]
    /\ data = None
    /\ last_update_success = TRUE
    /\ published = None
    /\ entities = None
    /\ svc = IdleSvc
    /\ demo = IdleDemo

NextSetup ==
    \/ TransformBegin
    \/ TransformMeter
    \/ UpdateReturns
    \/ async_setup_entry

SpecSetup == InitSetup /\ [][NextSetup]_vars

\* The service actions of the blueprint integration, called while it has
\* up to MaxEntries config entries whose first refresh has succeeded.
InitServices ==
    /\ now = 0
    /\ ticks = 0
    /\ token = None
    /\ token_expiry = None
    /\ obtained_at = None
    /\ auth_log = NoAuthLog
    /\ req = IdleReqs
    /\ server = [meters |-> <<>>, epoch |-> 0, tokens |-> Tokens]
    /\ faults_left = 0
    /\ cycles_left = 0
    /\ gd = IdleGd
    /\ co = IdleCo
    /\ heap = [id \in ObjIds |-> None]
    /\ data = None
    /\ last_update_success = TRUE
    /\ published = None
    /\ entities = None
    /\ \E n \in 0..MaxEntries :
          svc = [IdleSvc EXCEPT !.entries = [i \in 1..n |-> DemoCoordinator(FirstBody)]]
    /\ demo = IdleDemo

NextServices ==
    \/ handle_reload_data
    \/ \E k \in 1..Len(svc.runs) : async_handle_reload_data(k)
    \/ handle_example_action
    \/ ClockAdvances

SpecServices == InitServices /\ [][NextServices]_vars

\* The entities of one config entry of the blueprint integration.
InitDemo ==
    /\ now = 0
    /\ ticks = 0
    /\ token = None
    /\ token_expiry = None
    /\ obtained_at = None
    /\ auth_log = NoAuthLog
    /\ req = IdleReqs
    /\ server = [meters |-> <<>>, epoch |-> 0, tokens |-> Tokens]
    /\ faults_left = 0
    /\ cycles_left = 0
    /\ gd = IdleGd
    /\ co = IdleCo
    /\ heap = [id \in ObjIds |-> None]
    /\ data = None
    /\ last_update_success = TRUE
    /\ published = None
    /\ entities = None
    /\ svc = IdleSvc
    /\ \E u \in UserIds : demo = [IdleDemo EXCEPT !.data = DemoData(u)]

NextDemo ==
    \/ fan_async_set_percentage
    \/ fan_async_turn_on
    \/ fan_async_turn_off
    \/ select_async_select_option
    \/ button_async_press
    \/ demo_refresh

SpecDemo == InitDemo /\ [][NextDemo]_vars

\* The sensors over the fetch cycles: the first refresh, the platform setup
\* the host runs once it has succeeded, and the cycles that follow.  The
\* host sets the platforms up before its timer starts another cycle; while
\* no refresh has succeeded there is no setup and the first refresh is
\* tried again.
InitLifecycle ==
    /\ InitCommon
    /\ server \in ServerStates
    /\ faults_left = MaxFaults
    /\ cycles_left = MaxCycles

NextLifecycle ==
    \/ ((data # None => entities # None) /\ UpdateBegin)
    \/ EnsureAuthenticated(Fetcher)
    \/ EnsureAuthenticatedReturns(Fetcher)
    \/ SendRequest(Fetcher)
    \/ Reauthenticate(Fetcher)
    \/ RetryRequest(Fetcher)
    \/ GetDataResume
    \/ UpdateRaises
    \/ TransformBegin
    \/ TransformMeter
    \/ UpdateReturns
    \/ ServerChanges
    \/ async_setup_entry

SpecLifecycle == InitLifecycle /\ [][NextLifecycle]_vars

----------------------------------------------------------------------------
(* Claims about the API client, checked under SpecClient *)

IsRejected(st) == st # None /\ Get(st) \in {401, 403}

\* C1: when a single _api_request gets 401/403 on its first send and 401/403
\* again on the retry, it raises AuthenticationError after exactly one
\* re-authentication made in response to the rejection and exactly two sends;
\* no request ever re-authenticates twice or sends a third time.
C1_TwoRejectionsRaiseAfterOneReauth ==
    \A c \in Callers :
       /\ req[c].sends <= 2
       /\ req[c].reauths <= 1
       /\ (IsRejected(req[c].first_status) /\ IsRejected(req[c].retry_status))
            => /\ req[c].pc = "done"
               /\ req[c].result = "AuthenticationError"
               /\ req[c].reauths = 1
               /\ req[c].sends = 2

\* A call was rejected twice while the call of the other caller was awaiting
\* its own answer.
C1_Witness ==
    \E c \in Callers :
       /\ req[c].pc = "done"
       /\ req[c].first_status = Some(401)
       /\ req[c].retry_status = Some(403)
       /\ req[c].result = "AuthenticationError"
       /\ \E o \in Callers \ {c} : req[o].pc \in {"auth", "send", "reauth"}

\* C2: a token obtained at time T is valid at every t < T + L - 60 and expired
\* at every t >= T + L - 60 (L the fixed lifetime); _ensure_authenticated run
\* exactly at T + L - 60 calls async_authenticate once, and run earlier never.
C2_ExpiryBoundary ==
    /\ []((TokenTruthy(token) /\ obtained_at # None)
            => \A t \in {now, Get(obtained_at) + 55 * 60 - 61,
                         Get(obtained_at) + 55 * 60 - 60,
                         Get(obtained_at) + 55 * 60 - 59} :
                  _is_token_expired(token, token_expiry, t)
                     <=> t >= Get(obtained_at) + 55 * 60 - 60)
    /\ [][\A c \in Callers :
            (req[c].pc = "ensure" /\ req'[c].pc # "ensure"
               /\ TokenTruthy(token) /\ obtained_at # None)
              => /\ req'[c].ensure_auths =
                      (IF now >= Get(obtained_at) + 55 * 60 - 60
                       THEN 1 ELSE 0)
                 /\ req'[c].pc = (IF req'[c].ensure_auths = 1
                                  THEN "auth" ELSE "send")]_vars

\* _ensure_authenticated ran exactly at the boundary of a token that was
\* stored a second after the call that obtained it had checked the clock,
\* and has sent POST /auth.
C2_Witness ==
    \E c \in Callers :
       /\ req[c].pc = "auth"
       /\ req[c].deadline = Some(now + AUTH_TIMEOUT_SECONDS)
       /\ TokenTruthy(token)
       /\ obtained_at # None
       /\ Get(obtained_at) > 0
       /\ now = Get(obtained_at) + 55 * 60 - 60
       /\ req[c].ensure_auths = 1

\* C3: async_authenticate raises AuthenticationError on 401/403 and on a
\* response with `valid` false or without a token, raises CommunicationError
\* on a timeout or connection failure, and only for a valid response carrying
\* a token returns that token and stores it with expiry = issue time +
\* lifetime; a call that raises stores no token with an expiry.
C3_AuthenticateOutcomes ==
    auth_log.called =>
      LET resp == auth_log.resp
          good == resp.kind = "json" /\ resp.valid = Some(TRUE)
                  /\ resp.token # None /\ Get(resp.token) # ""
      IN /\ (resp.kind = "status" /\ resp.status \in {401, 403})
               => auth_log.raised = "AuthenticationError"
         /\ (resp.kind = "json" /\ ~good)
               => auth_log.raised = "AuthenticationError"
         /\ resp.kind \in {"timeout", "conn_error"}
               => auth_log.raised = "CommunicationError"
         /\ (auth_log.raised = "none") <=> good
         /\ good => /\ auth_log.ret = resp.token
                    /\ auth_log.token = resp.token
                    /\ auth_log.token_expiry = Some(auth_log.at + 55 * 60)
         /\ ~good => /\ auth_log.token_expiry = auth_log.pre_expiry
                     /\ auth_log.ret = None
                     /\ (auth_log.token = auth_log.pre_token
                         \/ ~TokenTruthy(auth_log.token))

C3_Witness ==
    /\ \E c \in Callers :
          /\ req[c].pc = "retry"
          /\ Get(req[c].try_deadline) < auth_log.at + REQUEST_TIMEOUT_SECONDS
    /\ auth_log.called
    /\ auth_log.resp.kind = "json"
    /\ auth_log.resp.valid = Some(TRUE)
    /\ auth_log.raised = "none"
    /\ auth_log.at > 0
    /\ auth_log.token_expiry = Some(auth_log.at + 55 * 60)
    /\ auth_log.pre_expiry # None
    /\ auth_log.pre_expiry # auth_log.token_expiry

\* C4 (as claimed): a network or timeout failure at any step of _api_request
\* (proactive authentication, first send, re-authentication, retry) makes it
\* raise CommunicationError.
C4_NetworkFailureIsCommunicationError ==
    \A c \in Callers :
       (req[c].pc = "done" /\ req[c].net_fail # "")
         => req[c].result = "CommunicationError"

\* C5 (as claimed): a non-2xx status other than 401/403, on the first send or
\* on the retry, makes _api_request raise the generic API error.
C5_OtherStatusIsGenericError ==
    \A c \in Callers :
       LET last == IF req[c].retry_status # None THEN req[c].retry_status
                   ELSE req[c].first_status
       IN (req[c].pc = "done" /\ last # None /\ Get(last) >= 300
           /\ Get(last) \notin {401, 403})
            => req[c].result = "ApiClientError"

----------------------------------------------------------------------------
(* Claims about async_get_data and the fetch cycles, checked under         *)
(* SpecGetData and Spec                                                    *)

\* The sub-fetches of one resource in the order async_get_data makes them:
\* the current window and the tariff only for a classifier without "cost".
SubfetchSteps(classifier) ==
    IF Contains(classifier, "cost") THEN <<"today", "week", "month">>
    ELSE <<"current", "today", "week", "month", "tariff">>

\* C6: an AuthenticationError raised by any API call that async_get_data
\* awaits (the virtual-entity list, a resource list, a current, today, week,
\* month or tariff sub-fetch) leaves async_get_data as that
\* AuthenticationError: the step in which async_get_data takes the failed
\* request's outcome ends it with raised = "AuthenticationError".
C6_AuthenticationErrorPropagates ==
    [][ (/\ co.state = "Fetching"
         /\ gd.pc \notin {"idle", "done"}
         /\ req[Fetcher].pc = "done"
         /\ req[Fetcher].result = "AuthenticationError"
         /\ gd' # gd)
        => (gd'.pc = "done" /\ gd'.raised = "AuthenticationError") ]_vars

\* The sub-fetches async_get_data has to make for the resources from index j
\* on: every resource with an id, every step of its classifier.
RECURSIVE ResourceCalls(_, _)
ResourceCalls(resources, j) ==
    IF j > Len(resources) THEN <<>>
    ELSE LET r == resources[j]
             steps == SubfetchSteps(ClassifierOf(r))
         IN (IF StrTruthy(r.resourceId)
             THEN [k \in 1..Len(steps) |-> [step |-> steps[k], id |-> Get(r.resourceId)]]
             ELSE <<>>)
            \o ResourceCalls(resources, j + 1)

\* The same for the meters of a result from index i of its order on.
RECURSIVE MeterCalls(_, _)
MeterCalls(result, i) ==
    IF i > Len(result.order) THEN <<>>
    ELSE ResourceCalls(result.meters[result.order[i]].resources, 1)
         \o MeterCalls(result, i + 1)

\* The sub-fetch `step` of resource `rid` was made and succeeded.
SubfetchSucceeded(step, rid) ==
    \E k \in 1..Len(gd.log) :
        gd.log[k].step = step /\ gd.log[k].id = rid /\ gd.log[k].ok

\* The resources of a meter record that have an id.
ResourcesWithId(md) ==
    { md.resources[j] : j \in { x \in 1..Len(md.resources) :
                                  StrTruthy(md.resources[x].resourceId) } }

\* C7: a sub-fetch that fails with an API client error never ends
\* async_get_data (an API client error leaves it only from the virtual-entity
\* list or a resource list); when async_get_data returns, every sub-fetch of
\* every resource of every meter was attempted, in order, and each meter
\* record holds exactly the entries of the sub-fetches that succeeded.
C7_SubfetchFailuresAreSwallowed ==
    /\ (gd.pc = "done" /\ gd.raised \in ApiClientErrors)
          => gd.call.kind \in {"virtualentity", "resources"}
    /\ (gd.pc = "done" /\ gd.raised = "")
          => /\ [k \in 1..Len(gd.log) |-> [step |-> gd.log[k].step, id |-> gd.log[k].id]]
                  = MeterCalls(gd.result, 1)
             /\ \A m \in DOMAIN gd.result.meters :
                   LET md == gd.result.meters[m]
                       rs == ResourcesWithId(md)
                   IN /\ DOMAIN md.current =
                            { ClassifierOf(r) : r \in { x \in rs :
                                SubfetchSucceeded("current", Get(x.resourceId)) } }
                      /\ DOMAIN md.tariffs =
                            { ClassifierOf(r) : r \in { x \in rs :
                                SubfetchSucceeded("tariff", Get(x.resourceId)) } }
                      /\ DOMAIN md.readings =
                            { <<ClassifierOf(p[1]), p[2]>> :
                                p \in { q \in rs \X {"today", "week", "month"} :
                                    SubfetchSucceeded(q[2], Get(q[1].resourceId)) } }

\* async_get_data returned although two sub-fetches failed, one of them
\* followed by a successful sub-fetch of another resource.
C7_Witness ==
    /\ gd.pc = "done"
    /\ gd.raised = ""
    /\ Cardinality({ k \in 1..Len(gd.log) : ~gd.log[k].ok }) >= 2
    /\ \E i, j \in 1..Len(gd.log) :
          i < j /\ ~gd.log[i].ok /\ gd.log[j].ok /\ gd.log[j].id # gd.log[i].id

\* C8: a fetch cycle ends by returning a snapshot, by raising
\* ConfigEntryAuthFailed or by raising UpdateFailed: nothing else leaves
\* _async_update_data.
C8_OnlyThreeOutcomes ==
    /\ co.state \in {"Idle", "Fetching", "Transforming", "Success", "AuthFailed",
                     "UpdateFailed"}
    /\ co.raised \in {"", "ConfigEntryAuthFailed", "UpdateFailed"}

\* C9: the step in which an exception of async_get_data leaves
\* _async_update_data raises ConfigEntryAuthFailed exactly when the exception
\* is an AuthenticationError and UpdateFailed exactly when it is another API
\* client error, with that exception as the cause; an exception of another
\* class leaves unwrapped, without cause; and no other step raises either of
\* the two.
C9_RaisedMatchesGetDataError ==
    [][ /\ (co.state = "Fetching" /\ gd.pc = "done" /\ gd.raised # "" /\ co' # co)
            => /\ co'.raised = "ConfigEntryAuthFailed"
                    <=> gd.raised = "AuthenticationError"
               /\ co'.raised = "UpdateFailed"
                    <=> gd.raised \in {"CommunicationError", "ApiClientError"}
               /\ co'.cause = IF gd.raised \in ApiClientErrors THEN gd.raised
                                                                 ELSE ""
        /\ (co'.raised \in {"ConfigEntryAuthFailed", "UpdateFailed"} /\ co' # co)
            => (co.state = "Fetching" /\ gd.pc = "done"
                /\ gd.raised \in ApiClientErrors) ]_vars

\* A cycle ended in ConfigEntryAuthFailed raised from an AuthenticationError.
C9_Witness ==
    /\ co.state = "AuthFailed"
    /\ co.raised = "ConfigEntryAuthFailed"
    /\ co.cause = "AuthenticationError"

\* C10: the dict entities read through coordinator.data is, at every point,
\* exactly what it was when it was published; _transform_data fills a dict
\* that is not the published one; and what a successful cycle publishes is
\* the transform of every meter of the data it fetched.
C10_PublishedSnapshotIsNeverPartial ==
    /\ Snapshot = published
    /\ co.state = "Transforming" => co.target # data
    /\ co.state = "Success" => published = Some(TransformAll(co.raw))

\* _transform_data has filled part of a new dict while entities read a
\* non-empty snapshot of an earlier cycle.
C10_Witness ==
    /\ co.state = "Transforming"
    /\ co.todo # <<>>
    /\ DOMAIN Get(heap[Get(co.target)]).meters # {}
    /\ Snapshot # None
    /\ DOMAIN Get(Snapshot).meters # {}

\* C11: between two cycles, and so after any sequence of successful and
\* failed cycles, the dict entities read is the one the most recent
\* successful cycle published, unchanged; a cycle that ended in UpdateFailed
\* or ConfigEntryAuthFailed has left it in place and is recorded as a failed
\* update.
C11_FailedCycleKeepsSnapshot ==
    /\ ~Fetching => Snapshot = published
    /\ co.state \in {"AuthFailed", "UpdateFailed"}
          => (Snapshot = published /\ ~last_update_success)

\* A cycle failed with UpdateFailed while entities read a non-empty snapshot
\* of an earlier cycle, and the account has changed since.
C11_Witness ==
    /\ co.state = "UpdateFailed"
    /\ Snapshot # None
    /\ DOMAIN Get(Snapshot).meters # {}
    /\ DOMAIN Get(Snapshot).meters #
          { Get(server.meters[i].ve.veId) :
              i \in { x \in 1..Len(server.meters) : StrTruthy(server.meters[x].ve.veId) } }

\* The ids of the virtual entities of a list that have one.
MeterIds(ves) ==
    { Get(ves[i].veId) : i \in { x \in 1..Len(ves) : StrTruthy(ves[x].veId) } }

\* C12: when the virtual-entity list request or a resource-list request
\* ends with an error, async_get_data ends at once with that error; an API
\* client error of async_get_data makes the cycle fail with UpdateFailed or
\* ConfigEntryAuthFailed and publishes nothing; and a cycle that publishes,
\* publishes a record for every listed meter.
C12_ListFailureFailsWholeCycle ==
    [][ /\ (/\ co.state = "Fetching"
            /\ gd.pc \in {"virtualentity", "resources"}
            /\ req[Fetcher].pc = "done"
            /\ req[Fetcher].result # "ok"
            /\ gd' # gd)
           => (gd'.pc = "done" /\ gd'.raised = req[Fetcher].result)
        /\ (/\ co.state = "Fetching"
            /\ gd.pc = "done"
            /\ gd.raised \in ApiClientErrors
            /\ co' # co)
           => /\ co'.state \in {"AuthFailed", "UpdateFailed"}
              /\ data' = data
              /\ published' = published
              /\ ~last_update_success'
        /\ (co'.state = "Success" /\ co' # co)
           => DOMAIN Get(published').meters = MeterIds(co.raw.virtual_entities) ]_vars

\* The resource-list request of a later meter failed after an earlier meter
\* had been fetched and stored.
C12_Witness ==
    /\ gd.pc = "done"
    /\ gd.raised \in ApiClientErrors
    /\ gd.call.kind = "resources"
    /\ DOMAIN gd.result.meters # {}

\* The twelve totals of a meter record: the field of the snapshot, and the
\* classifier and window of the readings it is made from.
TotalFields ==
    { <<"electricity_usage_today", CLASSIFIER_ELECTRICITY_CONSUMPTION, "today">>,
      <<"electricity_usage_week", CLASSIFIER_ELECTRICITY_CONSUMPTION, "week">>,
      <<"electricity_usage_month", CLASSIFIER_ELECTRICITY_CONSUMPTION, "month">>,
      <<"electricity_cost_today", CLASSIFIER_ELECTRICITY_COST, "today">>,
      <<"electricity_cost_week", CLASSIFIER_ELECTRICITY_COST, "week">>,
      <<"electricity_cost_month", CLASSIFIER_ELECTRICITY_COST, "month">>,
      <<"gas_usage_today", CLASSIFIER_GAS_CONSUMPTION, "today">>,
      <<"gas_usage_week", CLASSIFIER_GAS_CONSUMPTION, "week">>,
      <<"gas_usage_month", CLASSIFIER_GAS_CONSUMPTION, "month">>,
      <<"gas_cost_today", CLASSIFIER_GAS_COST, "today">>,
      <<"gas_cost_week", CLASSIFIER_GAS_COST, "week">>,
      <<"gas_cost_month", CLASSIFIER_GAS_COST, "month">> }

\* The four tariff fields and the classifier of the tariff they are made from.
TariffFields ==
    { <<"electricity_rate", CLASSIFIER_ELECTRICITY_CONSUMPTION>>,
      <<"electricity_standing_charge", CLASSIFIER_ELECTRICITY_CONSUMPTION>>,
      <<"gas_rate", CLASSIFIER_GAS_CONSUMPTION>>,
      <<"gas_standing_charge", CLASSIFIER_GAS_CONSUMPTION>> }

\* The dict _transform_data has finished and is about to return, or has
\* returned (an option).
NewSnapshot ==
    CASE co.state = "Transforming" /\ co.todo = <<>> -> heap[Get(co.target)]
      [] co.state = "Success" -> published
      [] OTHER -> None

\* C13: the snapshot a cycle produces is the transform of the data that
\* cycle fetched and of nothing else: its meters are the meters of this
\* cycle's entity list, and a total or tariff field whose sub-fetch left no
\* entry in this cycle's data is null, whatever the previous snapshot holds.
C13_SnapshotIsFunctionOfThisCycle ==
    NewSnapshot # None
      => /\ Get(NewSnapshot) = TransformAll(co.raw)
         /\ DOMAIN Get(NewSnapshot).meters = MeterIds(co.raw.virtual_entities)
         /\ \A m \in DOMAIN Get(NewSnapshot).meters :
               /\ \A f \in TotalFields :
                     <<f[2], f[3]>> \notin DOMAIN co.raw.meters[m].readings
                        => Get(NewSnapshot).meters[m][f[1]] = None
               /\ \A f \in TariffFields :
                     f[2] \notin DOMAIN co.raw.meters[m].tariffs
                        => Get(NewSnapshot).meters[m][f[1]] = None

\* A cycle is about to publish a snapshot that lacks a meter of the previous
\* one and has a null total where the previous one has a value for the same
\* meter.
C13_Witness ==
    /\ co.state = "Transforming"
    /\ co.todo = <<>>
    /\ Snapshot # None
    /\ DOMAIN Get(Snapshot).meters \ DOMAIN Get(NewSnapshot).meters # {}
    /\ \E m \in DOMAIN Get(Snapshot).meters \cap DOMAIN Get(NewSnapshot).meters :
          /\ Get(Snapshot).meters[m].electricity_usage_today # None
          /\ Get(NewSnapshot).meters[m].electricity_usage_today = None

----------------------------------------------------------------------------
(* Claims about the entities *)

\* The meter ids an entity can have been created for.
EntityMeterIds == {"m1", "m2", "m9"}

EnergyTypes == {"electricity", "gas"}

\* The record a Glow sensor of meter m reads has the energy type.
HasEnergy(m, energy_type) ==
    /\ Snapshot # None
    /\ m \in DOMAIN Get(Snapshot).meters
    /\ Get(Snapshot).meters[m][IF energy_type = "electricity"
                               THEN "has_electricity" ELSE "has_gas"]

\* C14: every entity of both integrations is unavailable when the last
\* fetch of its coordinator failed, and a Glow electricity, gas or tariff
\* sensor is unavailable as well when the record of its meter is missing
\* from the snapshot or does not have the sensor's energy type.
C14_UnavailableAfterFailedFetch ==
    /\ ~last_update_success =>
          /\ ~glow_diagnostic_available
          /\ \A m \in EntityMeterIds :
                /\ electricity_available(m) = Val(FALSE)
                /\ gas_available(m) = Val(FALSE)
                /\ \A e \in EnergyTypes : tariff_available(e, m) = Val(FALSE)
    /\ Snapshot # None =>
          \A m \in EntityMeterIds :
             /\ ~HasEnergy(m, "electricity")
                   => electricity_available(m) = Val(FALSE)
             /\ ~HasEnergy(m, "gas") => gas_available(m) = Val(FALSE)
             /\ \A e \in EnergyTypes :
                   ~HasEnergy(m, e) => tariff_available(e, m) = Val(FALSE)
    /\ \A flag \in BOOLEAN :
          ~flag => (~air_quality_available(flag)
                    /\ ~demo_diagnostic_available(flag))

\* What holds of the Glow sensors alone: unavailable after a failed fetch
\* and, once the coordinator has a snapshot, available exactly when the
\* last fetch succeeded and the record of the meter has the energy type.
\* Before the first snapshot, with no failed fetch yet, reading available
\* raises AttributeError.
C14_GlowSensorsAvailability ==
    /\ glow_diagnostic_available = last_update_success
    /\ \A m \in EntityMeterIds :
          IF Snapshot = None /\ last_update_success
          THEN /\ electricity_available(m) = Exc("AttributeError")
               /\ gas_available(m) = Exc("AttributeError")
               /\ \A e \in EnergyTypes :
                     tariff_available(e, m) = Exc("AttributeError")
          ELSE /\ electricity_available(m)
                     = Val(last_update_success /\ HasEnergy(m, "electricity"))
               /\ gas_available(m)
                     = Val(last_update_success /\ HasEnergy(m, "gas"))
               /\ \A e \in EnergyTypes :
                     tariff_available(e, m)
                        = Val(last_update_success /\ HasEnergy(m, e))

\* A failed cycle after a good one, with a gas-less meter in the snapshot.
C14_GlowWitness ==
    /\ ~last_update_success
    /\ Snapshot # None
    /\ \E m \in DOMAIN Get(Snapshot).meters :
          Get(Snapshot).meters[m].has_electricity
          /\ ~Get(Snapshot).meters[m].has_gas

----------------------------------------------------------------------------
(* Claims about _transform_data, checked under SpecTransform *)

\* The record of the meter in what async_get_data returned, and in the
\* snapshot the cycle published.
RawM1 == co.raw.meters["m1"]
OutM1 == Get(published).meters["m1"]

Transformed == co.state = "Success" /\ published # None

\* The series of today's electricity consumption in what async_get_data
\* returned: None if there is none, if it is null, or if it is empty.
TodaySeries ==
    LET body == DictGet(RawM1.readings, <<CLASSIFIER_ELECTRICITY_CONSUMPTION, "today">>)
    IN IF body = None \/ Get(body).data \in {None, Null}
          \/ Get(Get(body).data) = <<>>
       THEN None
       ELSE Get(body).data

IsValidPair(item) == Len(item.elems) >= 2 /\ item.elems[2] # None

\* The sum of the values of the valid pairs of a series, whatever their
\* order.
RECURSIVE SumOver(_, _)
SumOver(series, idx) ==
    IF idx = {} THEN 0
    ELSE LET i == CHOOSE x \in idx : TRUE
         IN Get(series[i].elems[2]) + SumOver(series, idx \ {i})

ValidSum(series) ==
    SumOver(series, { i \in 1..Len(series) : IsValidPair(series[i]) })

Orders(n) ==
    { p \in [1..n -> 1..n] : \A i, j \in 1..n : p[i] = p[j] => i = j }

Abs(x) == IF x < 0 THEN -x ELSE x

\* C15: the total extracted from a readings series is the sum of the
\* values of its valid [timestamp, value] pairs rounded to 3 decimals,
\* wherever the null-valued and too-short entries stand, it is the same
\* for every permutation of the series, and it is null for an absent or
\* empty series.
C15_TotalIsSumOfValidValues ==
    Transformed =>
       IF TodaySeries = None
       THEN OutM1.electricity_usage_today = None
       ELSE LET series == Get(TodaySeries)
                out == OutM1.electricity_usage_today
            IN /\ out # None
               /\ Get(out) % (Unit \div 1000) = 0
               /\ 2 * Abs(Get(out) - ValidSum(series)) <= Unit \div 1000
               /\ \A p \in Orders(Len(series)) :
                     _extract_reading_value(
                        Some(ReadingsBody([i \in 1..Len(series) |-> series[p[i]]])))
                       = Val(out)

\* Two valid pairs with an invalid entry between them, and their sum.
C15_Witness ==
    /\ Transformed
    /\ TodaySeries # None
    /\ LET series == Get(TodaySeries)
       IN /\ Len(series) = 3
          /\ IsValidPair(series[1]) /\ ~IsValidPair(series[2]) /\ IsValidPair(series[3])
          /\ series[1] # series[3]
          /\ OutM1.electricity_usage_today # None
          /\ Get(OutM1.electricity_usage_today) > Get(series[1].elems[2])
          /\ Get(OutM1.electricity_usage_today) > Get(series[3].elems[2])

\* The total on the wire under a reading key of the meter: the sum of the
\* valid values of the series, None if the series is absent or empty.
WireTotal(classifier, window) ==
    LET body == DictGet(RawM1.readings, <<classifier, window>>)
    IN IF body = None \/ Get(body).data \in {None, Null}
          \/ Get(Get(body).data) = <<>>
       THEN None
       ELSE Some(ValidSum(Get(Get(body).data)))

\* The currentRates of the first entry of the tariff history of a
\* classifier: None if there is no history, or no currentRates in it.
WireRates(classifier) ==
    LET body == DictGet(RawM1.tariffs, classifier)
    IN IF body = None \/ Get(body).data \in {None, Null}
          \/ Get(Get(body).data) = <<>>
       THEN None
       ELSE Get(Get(body).data)[1].currentRates

WireRate(classifier) ==
    IF WireRates(classifier) = None THEN None ELSE Get(WireRates(classifier)).rate

WireCharge(classifier) ==
    IF WireRates(classifier) = None THEN None
    ELSE Get(WireRates(classifier)).standingCharge

\* gbp is a number of whole pence and is pence / 100, to the half penny of
\* the rounding and the `slack` of the rounding of the pence before it.
IsPenceOver100(gbp, pence, slack) ==
    /\ gbp % (Unit \div 100) = 0
    /\ 2 * Abs(100 * gbp - pence) <= Unit + 2 * slack

\* out is the number `wire` rounded to a multiple of step, not divided.
IsRounded(out, wire, step) ==
    /\ out % step = 0
    /\ 2 * Abs(out - wire) <= step

\* C16: in the snapshot each of the six cost totals and the two standing
\* charges is the wire value in pence divided by 100, once; the usage
\* totals and the tariff rates, read from the first entry of the tariff
\* history, are not divided; null stays null; 250 pence are 2.5, a standing
\* charge of 4567 pence is 45.67, a rate of 15.2345 stays 15.2345.
C16_MoneyIsPenceOver100Once ==
    Transformed =>
       /\ \A t \in TotalFields :
             LET wire == WireTotal(t[2], t[3])
                 out == OutM1[t[1]]
             IN /\ (wire = None) = (out = None)
                /\ wire # None =>
                      IF Contains(t[2], "cost")
                      THEN IsPenceOver100(Get(out), Get(wire), Unit \div 1000)
                      ELSE IsRounded(Get(out), Get(wire), Unit \div 1000)
       /\ \A c \in {CLASSIFIER_ELECTRICITY_CONSUMPTION, CLASSIFIER_GAS_CONSUMPTION} :
             LET rate == OutM1[IF StartsWith(c, "gas") THEN "gas_rate"
                               ELSE "electricity_rate"]
                 charge == OutM1[IF StartsWith(c, "gas") THEN "gas_standing_charge"
                                 ELSE "electricity_standing_charge"]
             IN /\ (WireRate(c) = None) = (rate = None)
                /\ WireRate(c) # None =>
                      IsRounded(Get(rate), Get(WireRate(c)), Unit \div 10000)
                /\ (WireCharge(c) = None) = (charge = None)
                /\ WireCharge(c) # None =>
                      IsPenceOver100(Get(charge), Get(WireCharge(c)), Unit \div 100)
       /\ WireTotal(CLASSIFIER_ELECTRICITY_COST, "today") = Some(250 * Unit)
             => OutM1.electricity_cost_today = Some(250 * (Unit \div 100))
       /\ WireCharge(CLASSIFIER_ELECTRICITY_CONSUMPTION) = Some(4567 * Unit)
             => OutM1.electricity_standing_charge = Some(4567 * (Unit \div 100))
       /\ WireRate(CLASSIFIER_ELECTRICITY_CONSUMPTION) = Some(1523450)
             => OutM1.electricity_rate = Some(1523450)

\* 250 pence of cost, a standing charge of 4567 pence and a rate of
\* 15.2345 in the first of two entries of the tariff history.
C16_Witness ==
    /\ Transformed
    /\ WireTotal(CLASSIFIER_ELECTRICITY_COST, "today") = Some(250 * Unit)
    /\ OutM1.electricity_cost_today = Some(250 * (Unit \div 100))
    /\ OutM1.gas_cost_month # None
    /\ OutM1.electricity_usage_today # None
    /\ WireCharge(CLASSIFIER_ELECTRICITY_CONSUMPTION) = Some(4567 * Unit)
    /\ OutM1.electricity_standing_charge = Some(4567 * (Unit \div 100))
    /\ OutM1.electricity_rate = Some(1523450)
    /\ Len(Get(Get(DictGet(RawM1.tariffs, CLASSIFIER_ELECTRICITY_CONSUMPTION)).data)) = 2

\* Some resource of the list has a classifier that begins with `energy`.
HasResourceOf(resources, energy) ==
    \E i \in 1..Len(resources) :
       /\ resources[i].classifier \notin {None, Null}
       /\ Get(resources[i].classifier) # <<>>
       /\ HasPrefix(Head(Get(resources[i].classifier)), energy)

\* The resources of the list that are of electricity or of gas.
EnergyResources(resources) ==
    SelectSeq(resources, LAMBDA r : HasResourceOf(<<r>>, "electricity")
                                    \/ HasResourceOf(<<r>>, "gas"))

\* C17: has_electricity (has_gas) of a meter is true exactly when one of
\* its resources has a classifier starting with "electricity" ("gas"),
\* the resources of other classifiers change neither flag, and the model
\* label is given by the two flags.
C17_FlagsFollowClassifierPrefixes ==
    Transformed =>
       /\ OutM1.has_electricity = HasResourceOf(RawM1.resources, "electricity")
       /\ OutM1.has_gas = HasResourceOf(RawM1.resources, "gas")
       /\ LET rest == Get(transform_meter("m1",
                             [RawM1 EXCEPT !.resources = EnergyResources(@)]).v)
          IN /\ rest.has_electricity = OutM1.has_electricity
             /\ rest.has_gas = OutM1.has_gas
       /\ OutM1.model =
             CASE OutM1.has_electricity /\ OutM1.has_gas -> "Electricity & Gas Smart Meter"
               [] OutM1.has_electricity /\ ~OutM1.has_gas -> "Electricity Smart Meter"
               [] ~OutM1.has_electricity /\ OutM1.has_gas -> "Gas Smart Meter"
               [] OTHER -> "Smart Meter"
       /\ RawM1.resources = ElectricityOnly =>
             /\ OutM1.has_electricity /\ ~OutM1.has_gas
             /\ OutM1.model = "Electricity Smart Meter"

\* A meter of a gas resource and a resource that has "electricity" in its
\* classifier, not at its start: a gas meter.
C17_Witness ==
    /\ Transformed
    /\ Len(RawM1.resources) = 2
    /\ RawM1.resources[1].classifier = Some(ClassifierExport)
    /\ RawM1.resources[2].classifier = Some(CLASSIFIER_GAS_COST)
    /\ OutM1.has_gas /\ ~OutM1.has_electricity
    /\ OutM1.model = "Gas Smart Meter"

\* A meter of both energies.
C17_WitnessBoth ==
    /\ Transformed
    /\ Len(RawM1.resources) = 2
    /\ OutM1.has_gas /\ OutM1.has_electricity
    /\ OutM1.model = "Electricity & Gas Smart Meter"

----------------------------------------------------------------------------
(* Claims about meters without resources, checked under Spec *)

\* The meters of a result of async_get_data whose resource list is empty.
EmptyMeters(result) ==
    { m \in DOMAIN result.meters : result.meters[m].resources = <<>> }

\* The names of the sixteen usage, cost, rate and standing-charge fields.
ValueFieldNames ==
    { f[1] : f \in TotalFields } \cup { f[1] : f \in TariffFields }

\* C18: a meter whose resource list is empty has, in the snapshot of a
\* cycle that fetched and transformed it, has_electricity and has_gas false
\* and null in each of the sixteen usage, cost, rate and standing-charge
\* fields; a readings or tariff request is only ever made for a resource of
\* the list being iterated, so none is made for such a meter and its raw
\* record holds no readings, no current readings and no tariffs.
C18_MeterWithoutResourcesIsAllNull ==
    /\ gd.pc \in {"current", "today", "week", "month", "tariff"}
          => /\ gd.resources # <<>>
             /\ gd.call.kind \in {"readings", "tariff"}
             /\ \E j \in 1..Len(gd.resources) :
                   gd.resources[j].resourceId = Some(gd.call.id)
    /\ (req[Fetcher].pc # "idle" /\ req[Fetcher].endpoint.kind \in {"readings", "tariff"})
          => /\ gd.resources # <<>>
             /\ req[Fetcher].endpoint = gd.call
    /\ (gd.pc = "done" /\ gd.raised = "")
          => /\ \A m \in EmptyMeters(gd.result) :
                   /\ gd.result.meters[m].readings = EmptyDict
                   /\ gd.result.meters[m].current = EmptyDict
                   /\ gd.result.meters[m].tariffs = EmptyDict
             /\ EmptyMeters(gd.result) = DOMAIN gd.result.meters
                   => gd.log = <<>>
    /\ (co.state = "Success" /\ published # None)
          => \A m \in EmptyMeters(co.raw) :
                LET out == Get(published).meters[m]
                IN /\ ~out.has_electricity
                   /\ ~out.has_gas
                   /\ \A f \in ValueFieldNames : out[f] = None

\* The last cycle of the behaviour has published the snapshot of an account
\* whose meter "m2" has no resources.
C18_Witness ==
    /\ co.state = "Success"
    /\ published # None
    /\ cycles_left = 0
    /\ "m2" \in EmptyMeters(co.raw)
    /\ ~Get(published).meters["m2"].has_gas
    /\ Get(published).meters["m2"].gas_usage_today = None
    /\ Get(published).meters["m2"].model = "Smart Meter"

----------------------------------------------------------------------------
(* Claims about the sensor platform, checked under SpecSetup *)

\* The metrics of an energy type: the keys of its sensors and of its tariff
\* sensors.
MetricsOf(energy_type) ==
    { TariffKeys(energy_type)[i] : i \in 1..Len(TariffKeys(energy_type)) }
    \cup (IF energy_type = "electricity"
          THEN { ELECTRICITY_DESCRIPTIONS[i] : i \in 1..Len(ELECTRICITY_DESCRIPTIONS) }
          ELSE { GAS_DESCRIPTIONS[i] : i \in 1..Len(GAS_DESCRIPTIONS) })

\* How many of the sensors added are of the meter and the key.
CountOf(meter_id, key) ==
    Cardinality({ i \in 1..Len(Get(entities)) :
                    Get(entities)[i].meter_id = meter_id /\ Get(entities)[i].key = key })

\* C19: the sensors the platform setup adds are, for every meter of the
\* snapshot, exactly one per metric of each energy type the meter has and
\* none of an energy type it lacks (and none of a meter that is not in the
\* snapshot); two of them of different meters or of different metrics have
\* different unique ids.
C19_OneSensorPerMeterAndMetric ==
    entities # None =>
       LET es == Get(entities)
           meters == Get(Snapshot).meters
       IN /\ \A m \in DOMAIN meters : \A e \in {"electricity", "gas"} :
                \A k \in MetricsOf(e) :
                   CountOf(m, k) = IF meters[m]["has_" \o e] THEN 1 ELSE 0
          /\ \A i \in 1..Len(es) :
                /\ es[i].meter_id \in DOMAIN meters
                /\ es[i].key \in MetricsOf("electricity") \cup MetricsOf("gas")
          /\ \A i, j \in 1..Len(es) :
                (es[i].meter_id # es[j].meter_id \/ es[i].key # es[j].key)
                   => es[i].unique_id # es[j].unique_id

\* The sensors of meter "m1", which has gas and no electricity, and of
\* meter "m1_gas", which has both, have been added.
C19_Witness ==
    /\ entities # None
    /\ DOMAIN Get(Snapshot).meters = {"m1", "m1_gas"}
    /\ Get(Snapshot).meters["m1"].has_gas
    /\ ~Get(Snapshot).meters["m1"].has_electricity
    /\ Get(Snapshot).meters["m1_gas"].has_electricity
    /\ Get(Snapshot).meters["m1_gas"].has_gas
    /\ Len(Get(entities)) = 8 + 17
    /\ CountOf("m1", <<"gas", "rate">>) = 1
    /\ CountOf("m1", <<"electricity", "rate">>) = 0

----------------------------------------------------------------------------
(* Claims about the service actions, checked under SpecServices *)

\* A step in which a call of the service action returns to its caller.
ReturnsFrom(service) ==
    svc'.last.id # svc.last.id /\ svc'.last.service = service

\* A step in which an activation of the handler of reload_data comes to
\* await the refresh of entry i: the call, for the first entry, or the end
\* of the refresh of the entry before.
RequestsRefreshOf(i) ==
    \/ /\ Len(svc'.runs) = Len(svc.runs) + 1
       /\ i = 1
    \/ \E k \in 1..Len(svc.runs) :
          /\ svc'.runs[k] # svc.runs[k]
          /\ svc'.runs[k].pc = "await"
          /\ svc'.runs[k].i = i

\* C20: a call of reload_data requests a refresh of the coordinator of
\* every config entry and returns to its caller a response that holds a
\* status, a timestamp and a record count; a call of example_action leaves
\* the coordinators' data and the entities as they are.
C20_ReloadReturnsResponse ==
    /\ [][ \A i \in 1..Len(svc.entries) :
              RequestsRefreshOf(i) =>
                 svc'.entries[i].refreshes = svc.entries[i].refreshes + 1 ]_vars
    /\ [][ ReturnsFrom("reload_data") =>
             /\ svc.entries # <<>> =>
                   /\ Len(svc'.last.handled) = Len(svc.entries)
                   /\ svc'.last.returned # None
                   /\ {"status", "timestamp", "record_count"}
                         \subseteq DOMAIN Get(svc'.last.returned) ]_vars
    /\ [][ ReturnsFrom("example_action") =>
             /\ svc'.entries = svc.entries
             /\ UNCHANGED <<data, heap, last_update_success, entities>> ]_vars

\* What holds of the two service actions: reload_data requests a refresh of
\* the coordinator of each entry in turn, awaits it, and builds for each a
\* response with a status and a timestamp, and with a record count and a
\* duration when no exception reached it, but its caller gets nothing;
\* example_action changes nothing.
C20_ReloadRefreshesAndReturnsNothing ==
    /\ [][ \A i \in 1..Len(svc.entries) :
              RequestsRefreshOf(i) =>
                 svc'.entries[i].refreshes = svc.entries[i].refreshes + 1 ]_vars
    /\ [][ ReturnsFrom("reload_data") =>
             /\ Len(svc'.last.handled) = Len(svc.entries)
             /\ \A i \in 1..Len(svc.entries) :
                   /\ {"status", "timestamp"} \subseteq DOMAIN svc'.last.handled[i]
                   /\ svc'.last.handled[i].status = "success"
                         => {"record_count", "duration_ms"}
                               \subseteq DOMAIN svc'.last.handled[i]
             /\ svc'.last.returned = None ]_vars
    /\ [][ ReturnsFrom("example_action") =>
             /\ svc'.entries = svc.entries
             /\ UNCHANGED <<data, heap, last_update_success, entities>> ]_vars

\* reload_data was called with two config entries and refreshed both, the
\* second refresh taking 1.235 ms, while another call of it awaited a
\* refresh.
C20_ReloadWitness ==
    /\ svc.last.service = "reload_data"
    /\ Len(svc.entries) = 2
    /\ \A i \in 1..2 : svc.last.handled[i].status = "success"
    /\ svc.last.handled[2].duration_ms = 123
    /\ \A i \in 1..2 : svc.entries[i].refreshes >= 1
    /\ svc.last.returned = None
    /\ \E k \in 1..Len(svc.runs) : svc.runs[k].pc = "await"

----------------------------------------------------------------------------
(* Claims about the entities of the blueprint integration, checked under
   SpecDemo *)

\* The last call of an entity that changed the speed: of the fan with a
\* percentage above 0, or of the select with one of its options.
LastSpeedChange ==
    CASE demo.last.op = "fan" /\ Get(demo.last.arg) > 0 -> "fan"
      [] demo.last.op = "select" /\ Get(demo.last.arg) \in FanSpeeds -> "select"
      [] OTHER -> ""

\* C21: from fan.async_set_percentage(p) with p > 0 until the next call of
\* an entity, the current option of the fan_speed select is the speed name
\* of p, also after the refresh the call requested has succeeded.
C21_SelectFollowsFan ==
    (demo.last.op = "fan" /\ Get(demo.last.arg) > 0)
       => current_option = speed_name(Get(demo.last.arg))

\* What holds: the select shows the speed name of p until a refresh
\* completes, and after a refresh that succeeded what the select itself was
\* last set to.
C21_SelectFollowsFanUntilRefresh ==
    (demo.last.op = "fan" /\ Get(demo.last.arg) > 0)
       => /\ demo.last.refresh = ""
                => current_option = speed_name(Get(demo.last.arg))
          /\ demo.last.refresh = "ok"
                => current_option = demo.select.current_option

\* The fan was set to 100, the refresh succeeded, the select shows "auto".
C21_Reached ==
    /\ demo.last = [op |-> "fan", arg |-> Some(100), refresh |-> "ok"]
    /\ current_option = "auto"

\* C22: after select.async_select_option(o) with o low, medium or high, the
\* percentage the fan reports is one of speed o.
C22_FanFollowsSelect ==
    (demo.last.op = "select" /\ Get(demo.last.arg) \in {"low", "medium", "high"})
       => /\ fan_percentage > 0
          /\ speed_name(fan_percentage) = Get(demo.last.arg)

\* What holds: no call of the select changes the fan.
C22_SelectLeavesFan ==
    [][ demo'.last.op = "select" /\ demo'.last.refresh = ""
           => demo'.fan = demo.fan ]_vars

\* The select was set to "low"; the fan reports 66, a medium speed.
C22_Reached ==
    /\ demo.last.op = "select"
    /\ demo.last.arg = Some("low")
    /\ fan_percentage = 66

\* C23: when the reset-filter button was pressed and the refresh it
\* requested has completed, the filter_life sensor reports 100 if the last
\* update succeeded.
C23_FilterLifeIs100AfterPress ==
    (demo.last.op = "press" /\ demo.last.refresh # "" /\ demo.last_update_success)
       => filter_life_native_value = Some(100)

\* What holds: after the press and a refresh that succeeded the sensor
\* reports what the userId of the new data gives; it reports 100 between
\* the press and the refresh.
C23_FilterLifeFollowsData ==
    /\ (demo.last.op = "press" /\ demo.last.refresh = "ok")
          => /\ ~demo.data.demo_filter_reset
             /\ filter_life_native_value =
                   Some(100 - ((IF demo.data.userId = None THEN 0
                                ELSE Get(demo.data.userId)) % 100))
    /\ (demo.last.op = "press" /\ demo.last.refresh = "" /\ demo.last_update_success)
          => filter_life_native_value = Some(100)

\* The button was pressed, the refresh succeeded, the sensor reports 99.
C23_Reached ==
    /\ demo.last.op = "press"
    /\ demo.last.refresh = "ok"
    /\ filter_life_native_value = Some(99)

----------------------------------------------------------------------------
(* Claims about the order of the calls of async_get_data, checked under
   SpecGetData *)

\* The sub-fetches logged so far, without their outcomes.
LoggedCalls == [k \in 1..Len(gd.log) |-> [step |-> gd.log[k].step, id |-> gd.log[k].id]]

\* The ids of the entities before index n of the list that have a veId.
IdsBefore(ves, n) ==
    LET with == SelectSeq(SubSeq(ves, 1, n - 1), LAMBDA ve : StrTruthy(ve.veId))
    IN [i \in 1..Len(with) |-> Get(with[i].veId)]

\* How many sub-fetches were logged for a resource id.
CallsOf(rid) == Cardinality({ k \in 1..Len(gd.log) : gd.log[k].id = rid })

\* C24: while async_get_data runs, one request is in flight, the one it
\* awaits.  The virtual-entity list is requested first; the resource list of
\* a meter is requested when the sub-fetches of all earlier meters are done
\* and before any of its own; the sub-fetches of a resource follow those of
\* the resources before it, in the order current (not for a cost resource),
\* today, week, month, tariff (not for a cost resource).  When it returns,
\* a cost resource has had 3 sub-fetches, another resource 5, a resource
\* without resourceId none, and an entity without veId no call at all.
C24_CallsAreSequentialAndOrdered ==
    /\ (co.state = "Fetching" /\ gd.pc \notin {"idle", "done"})
          => (req[Fetcher].pc # "idle" /\ req[Fetcher].endpoint = gd.call)
    /\ gd.pc = "virtualentity"
          => /\ gd.call = Endpoint("virtualentity", "", "")
             /\ gd.log = <<>>
             /\ gd.result.order = <<>>
    /\ gd.pc = "resources"
          => /\ StrTruthy(gd.ves[gd.vi].veId)
             /\ gd.call = Endpoint("resources", Get(gd.ves[gd.vi].veId), "")
             /\ gd.result.order = IdsBefore(gd.ves, gd.vi)
             /\ LoggedCalls = MeterCalls(gd.result, 1)
    /\ gd.pc \in {"current", "today", "week", "month", "tariff"}
          => LET r == gd.resources[gd.ri]
                 steps == SubfetchSteps(ClassifierOf(r))
                 mine == ResourceCalls(<<r>>, 1)
             IN /\ StrTruthy(r.resourceId)
                /\ \E k \in 1..Len(steps) :
                      /\ steps[k] = gd.pc
                      /\ LoggedCalls =
                            MeterCalls(gd.result, 1)
                            \o ResourceCalls(SubSeq(gd.resources, 1, gd.ri - 1), 1)
                            \o SubSeq(mine, 1, k - 1)
                /\ gd.call = SubfetchCall(gd.pc, Get(r.resourceId))
                /\ gd.result.order = IdsBefore(gd.ves, gd.vi)
    /\ (gd.pc = "done" /\ gd.raised = "")
          => /\ gd.result.order = IdsBefore(gd.ves, Len(gd.ves) + 1)
             /\ LoggedCalls = MeterCalls(gd.result, 1)
             /\ \A m \in DOMAIN gd.result.meters :
                   LET rs == gd.result.meters[m].resources
                   IN \A j \in 1..Len(rs) :
                         StrTruthy(rs[j].resourceId) =>
                            CallsOf(Get(rs[j].resourceId)) =
                               IF Contains(ClassifierOf(rs[j]), "cost") THEN 3 ELSE 5

\* async_get_data has returned for the meter with a consumption and a cost
\* resource: five sub-fetches of the first, then three of the second.
C24_Witness ==
    /\ gd.pc = "done"
    /\ gd.raised = ""
    /\ Len(gd.log) = 8
    /\ CallsOf("r1") = 5
    /\ CallsOf("r2") = 3
    /\ gd.log[5].step = "tariff" /\ gd.log[5].id = "r1"
    /\ gd.log[6].step = "today" /\ gd.log[6].id = "r2"

\* async_get_data has returned for the account whose first entity has no
\* veId and for the meter with a resource without resourceId.
C24_WitnessSkipped ==
    /\ gd.pc = "done"
    /\ gd.raised = ""
    /\ \/ (Len(gd.ves) = 2 /\ Len(gd.result.order) = 1 /\ gd.log = <<>>)
       \/ (\E m \in DOMAIN gd.result.meters :
             Len(gd.result.meters[m].resources) = 3 /\ Len(gd.log) = 10)

----------------------------------------------------------------------------
(* Claims about the sensors after their setup, checked under SpecLifecycle *)

SensorsOf(meter_id) ==
    { i \in 1..Len(Get(entities)) : Get(entities)[i].meter_id = meter_id }

\* The field the latest published snapshot stores for a sensor: null when
\* the snapshot has no such meter or the meter no such field.
PublishedField(sensor) ==
    LET meters == Get(published).meters
    IN IF sensor.meter_id \in DOMAIN meters
          /\ data_key(sensor) \in DOMAIN meters[sensor.meter_id]
       THEN meters[sensor.meter_id][data_key(sensor)]
       ELSE None

SensorsReadPublished ==
    (entities # None /\ published # None) =>
       \A i \in 1..Len(Get(entities)) :
          LET e == Get(entities)[i]
          IN /\ native_value(e) = Val(PublishedField(e))
             /\ e.meter_id \notin DOMAIN Get(published).meters
                   => /\ sensor_available(e) = Val(FALSE)
                      /\ native_value(e) = Val(None)

\* C25: the sensors are fixed at platform setup and read through the
\* coordinator.  In every state after the setup each sensor's native_value
\* is, without raising, the field the latest published snapshot stores under
\* its data key for its meter; a sensor whose meter is missing from that
\* snapshot is unavailable with a null value; and no later cycle changes the
\* list of sensors, so a meter that first appears later has none.
C25_SensorsFixedAndReadSnapshot ==
    /\ []SensorsReadPublished
    /\ [][entities # None => entities' = entities]_vars

\* After a later successful cycle a meter that has sensors is missing from
\* the snapshot, and the snapshot has a meter without sensors.
C25_Witness ==
    /\ entities # None
    /\ cycles_left < MaxCycles
    /\ co.state = "Success"
    /\ last_update_success
    /\ \E i \in 1..Len(Get(entities)) :
          Get(entities)[i].meter_id \notin DOMAIN Get(published).meters
    /\ \E m \in DOMAIN Get(published).meters : SensorsOf(m) = {}

\* After a later failed cycle a sensor still has the non-null value of the
\* snapshot published before it.
C25_WitnessFailed ==
    /\ entities # None
    /\ cycles_left < MaxCycles
    /\ co.state = "UpdateFailed"
    /\ ~last_update_success
    /\ \E i \in 1..Len(Get(entities)) :
          /\ native_value(Get(entities)[i]).v # None
          /\ sensor_available(Get(entities)[i]) = Val(FALSE)

----------------------------------------------------------------------------
(* Further claims about the API client, checked under SpecClient *)

\* The stored token, when truthy, is the one a successful async_authenticate
\* returned at obtained_at, with its expiry.
HeldTokenWasIssued ==
    TokenTruthy(token) =>
       /\ obtained_at # None
       /\ token_expiry = Some(Get(obtained_at) + TOKEN_LIFETIME_SECONDS)

\* The stored token becomes another truthy value only in a step in which
\* async_authenticate returns that value.
TokenSetByAuthenticate ==
    (token' # token /\ TokenTruthy(token')) =>
       /\ auth_log'.called
       /\ auth_log'.raised = "none"
       /\ auth_log'.ret = token'
       /\ auth_log'.at = now
       /\ obtained_at' = Some(now)

\* A data request goes out with the token stored at that moment, which is
\* truthy.
SendCarriesHeldToken ==
    \A c \in Callers :
       req'[c].sends = req[c].sends + 1 =>
          /\ TokenTruthy(token')
          /\ req'[c].sent[req'[c].sends] = Get(token')
          /\ req'[c].sent[req'[c].sends] # ""

\* The first send goes out in the step in which _ensure_authenticated
\* checked the token or in the step in which the token was stored: the token
\* sent has more than 60 seconds left then, and so it had at any earlier
\* time.
FirstSendNotNearExpiry ==
    \A c \in Callers :
       (req[c].sends = 0 /\ req'[c].sends = 1) =>
          /\ req[c].pc \in {"ensure", "auth"}
          /\ req[c].pc = "ensure" => (token' = token /\ token_expiry' = token_expiry)
          /\ now < Get(token_expiry') - 60
          /\ now + 60 < Get(obtained_at') + TOKEN_LIFETIME_SECONDS

\* The rejection drops the token before POST /auth goes out.
RejectionDropsToken ==
    \A c \in Callers :
       (req[c].pc = "send" /\ req'[c].pc = "reauth") => token' = None

\* The retry: the token sent is the one the re-authentication of this
\* request returned, in the step in which it returned.
RetryCarriesReauthToken ==
    \A c \in Callers :
       (req[c].sends = 1 /\ req'[c].sends = 2) =>
          /\ req[c].pc = "reauth"
          /\ req'[c].reauths = 1
          /\ auth_log'.called
          /\ auth_log'.raised = "none"
          /\ auth_log'.ret = token'
          /\ req'[c].sent[2] = Get(auth_log'.ret)
          /\ (auth_log'.resp.token # Some(req[c].sent[1])
                => req'[c].sent[2] # req[c].sent[1])

\* C26: every data request _api_request sends carries a non-empty token that
\* a successful async_authenticate returned; the first send never goes out
\* with a token that had 60 seconds or less to its expiry when
\* _ensure_authenticated checked it; the retry after a 401/403 carries the
\* token the re-authentication returned, the rejected one having been
\* dropped.
C26_SendsCarryIssuedFreshToken ==
    /\ []HeldTokenWasIssued
    /\ [][TokenSetByAuthenticate]_vars
    /\ [][SendCarriesHeldToken]_vars
    /\ [][FirstSendNotNearExpiry]_vars
    /\ [][RejectionDropsToken]_vars
    /\ [][RetryCarriesReauthToken]_vars

\* A request that authenticated first, was rejected and succeeded on the
\* retry with another token, while the request the other caller sent with
\* the rejected token is still awaiting its answer.
C26_Witness ==
    \E c \in Callers :
       /\ req[c].pc = "done"
       /\ req[c].result = "ok"
       /\ req[c].sends = 2
       /\ req[c].ensure_auths = 1
       /\ req[c].reauths = 1
       /\ req[c].sent[1] # req[c].sent[2]
       /\ req[c].sent[2] = Get(token)
       /\ \E o \in Callers \ {c} :
             /\ req[o].pc = "send"
             /\ req[o].sent = <<req[c].sent[1]>>

----------------------------------------------------------------------------
(* Claims about the API client, checked under SpecClientLive *)

\* What the stored fields make the next _api_request do first.
NextRequestAuthenticates == _ensure_authenticated(token, token_expiry, now)

\* Between requests and at the start of one: either the client will
\* authenticate first, or it holds a token a successful authentication
\* returned, with more than 60 seconds left.
ClientCanGoOn ==
    \A c \in Callers :
       req[c].pc \in {"idle", "ensure", "done"} =>
          \/ NextRequestAuthenticates
          \/ /\ TokenTruthy(token)
             /\ obtained_at # None
             /\ token_expiry = Some(Get(obtained_at) + TOKEN_LIFETIME_SECONDS)
             /\ now < Get(token_expiry) - 60

\* A request all of whose answers were the server's good ones returns.
UnfaultedRequestSucceeds ==
    \A c \in Callers :
       (req[c].pc = "done" /\ ~req[c].faulted)
          => (req[c].result = "ok" /\ req[c].body # None)

\* C27: the client never gets stuck.  Whatever failed before, the next
\* _api_request first authenticates or sends a token a successful
\* authentication returned; a request whose answers are all good returns its
\* body; and a request started when the server answers no more faults
\* eventually returns with success, without any reset of the client,
\* whatever the other caller does meanwhile.
C27_ClientRecovers ==
    /\ []ClientCanGoOn
    /\ []UnfaultedRequestSucceeds
    /\ \A c \in Callers :
          (req[c].pc = "ensure" /\ faults_left = 0 /\ ~req[c].faulted)
             ~> (req[c].pc = "done" /\ req[c].result = "ok")

\* A request started with the token dropped by a rejected send whose
\* re-authentication failed (the expiry is still stored), after the fault
\* budget was used up; it has authenticated and awaits the answer to its
\* data request.
C27_Witness ==
    \E c \in Callers :
       /\ req[c].pc = "send"
       /\ ~req[c].faulted
       /\ faults_left = 0
       /\ req[c].ensure_auths = 1
       /\ auth_log.called
       /\ auth_log.raised = "none"
       /\ auth_log.pre_token = None
       /\ auth_log.pre_expiry # None

----------------------------------------------------------------------------
(* Claims about async_authenticate, checked under SpecClient *)

\* C28 (as claimed): when async_authenticate raises, the stored token and
\* the stored expiry are what they were before the call.
C28_FailedAuthenticateKeepsToken ==
    (auth_log.called /\ auth_log.raised # "none") =>
       /\ auth_log.token = auth_log.pre_token
       /\ auth_log.token_expiry = auth_log.pre_expiry

\* What holds: a call that raises keeps the stored expiry; it keeps the
\* stored token unless the answer was a valid one without a token, and then
\* the stored token is what the answer carried under "token" (nothing or the
\* empty string).
C28_FailedAuthenticateKeepsExpiry ==
    (auth_log.called /\ auth_log.raised # "none") =>
       /\ auth_log.token_expiry = auth_log.pre_expiry
       /\ IF auth_log.resp.kind = "json" /\ auth_log.resp.valid = Some(TRUE)
          THEN /\ auth_log.token = auth_log.resp.token
               /\ ~TokenTruthy(auth_log.token)
               /\ auth_log.raised = "AuthenticationError"
          ELSE auth_log.token = auth_log.pre_token

\* async_authenticate raised on a valid answer without a token while a token
\* was stored: the stored token is gone.
C28_Reached ==
    /\ auth_log.called
    /\ auth_log.raised = "AuthenticationError"
    /\ TokenTruthy(auth_log.pre_token)
    /\ auth_log.token = None
    /\ token = None

----------------------------------------------------------------------------
(* Claims about the demo fan's on/off state, checked under SpecDemo *)

\* C29 (as claimed): in every state the fan is on exactly when its stored
\* percentage is greater than 0; it never reports is_on together with a
\* percentage of 0.
C29_OnIffPositivePercentage ==
    /\ demo.fan.is_on <=> demo.fan.percentage > 0
    /\ ~(demo.fan.is_on /\ fan_percentage = 0)

\* What holds: a fan that is off has the stored percentage 0, and the fan
\* comes to be on with the percentage 0 only by async_turn_on without a
\* percentage on a fan that was turned off.
C29_OffHasZeroAndOnZeroOnlyByTurnOn ==
    /\ [](~demo.fan.is_on => demo.fan.percentage = 0)
    /\ [][(demo'.fan.is_on /\ demo'.fan.percentage = 0
           /\ demo'.fan # demo.fan)
            => /\ demo'.last.op = "turn_on"
               /\ demo'.last.arg = None
               /\ demo.fan = [is_on |-> FALSE, percentage |-> 0]]_vars

\* async_turn_on without a percentage was called on the fan that was off.
C29_Reached ==
    /\ demo.last.op = "turn_on"
    /\ demo.last.arg = None
    /\ demo.fan.is_on
    /\ demo.fan.percentage = 0
    /\ fan_percentage = 0

----------------------------------------------------------------------------
(* Claims about the sensors' data keys, checked under SpecLifecycle *)

PowerCurrent == <<"electricity", "power", "current">>

\* The raw data of the cycle that ended hold recent readings under `current`
\* for the meter.
HasCurrentReadings(meter_id) ==
    /\ co.state = "Success"
    /\ meter_id \in DOMAIN co.raw.meters
    /\ CLASSIFIER_ELECTRICITY_CONSUMPTION
          \in DOMAIN co.raw.meters[meter_id].current

\* C30 (as claimed): the data key of every sensor is a field of its meter's
\* record in the snapshot, and where async_get_data fetched recent readings
\* under `current` the sensor of the current power has a value.
C30_EveryDataKeyIsTransformed ==
    (entities # None /\ published # None) =>
       \A i \in 1..Len(Get(entities)) :
          LET e == Get(entities)[i]
              meters == Get(published).meters
          IN e.meter_id \in DOMAIN meters =>
                /\ data_key(e) \in DOMAIN meters[e.meter_id]
                /\ (e.key = PowerCurrent /\ HasCurrentReadings(e.meter_id))
                      => native_value(e).v # None

\* What holds: every sensor but the one of the current power reads a field
\* the transform writes; the sensor of the current power reads a key that is
\* in no record, and its value is always null.
C30_AllKeysButPowerCurrent ==
    (entities # None /\ published # None) =>
       \A i \in 1..Len(Get(entities)) :
          LET e == Get(entities)[i]
              meters == Get(published).meters
          IN /\ e.key = PowerCurrent => native_value(e) = Val(None)
             /\ e.meter_id \in DOMAIN meters =>
                   (data_key(e) \in DOMAIN meters[e.meter_id]
                      <=> e.key # PowerCurrent)

\* A cycle has published the snapshot of a meter whose raw data hold recent
\* readings under `current`, and the meter has the sensor of the current
\* power.
C30_Reached ==
    /\ entities # None
    /\ published # None
    /\ \E i \in 1..Len(Get(entities)) :
          /\ Get(entities)[i].key = PowerCurrent
          /\ HasCurrentReadings(Get(entities)[i].meter_id)
          /\ Get(entities)[i].meter_id \in DOMAIN Get(published).meters
          /\ native_value(Get(entities)[i]) = Val(None)

============================================================================
